---------------------------- MODULE Spec2Model ----------------------------
(***************************************************************************)
(* Model of the StoryMaster document version store                         *)
(* (src/src/stores/story-file-store.ts, class StoryFileStore).             *)
(*                                                                         *)
(* The store keeps two maps: storyFiles (id -> current document) and       *)
(* versions (id -> array of version records).  Every public method is an   *)
(* async function.  A JavaScript async function runs synchronously up to   *)
(* its first await, so the only place where another call can run in the    *)
(* middle of a store operation and still find work left to do is the       *)
(* `await this.getVersion(...)` of revertToVersion (line 102): the lookup  *)
(* has been made, the call to updateStoryFile has not.  revertToVersion is *)
(* therefore two actions, with the suspended calls kept in `pending` in    *)
(* the order in which they will resume.  createStoryFile and               *)
(* updateStoryFile await createVersion only after all their writes are     *)
(* done (createVersion has no await of its own), and only return after it. *)
(*                                                                         *)
(* Strings are sequences of characters.  Metadata objects are functions    *)
(* from a finite set of keys.  A value that may be null is a sequence of   *)
(* length 0 or 1.  Fields that no store operation ever reads (projectId,   *)
(* filename, the record id, createdAt) are not part of the state.          *)
(***************************************************************************)
EXTENDS Integers, Sequences, FiniteSets, TLC

VARIABLES storyFiles, versions, nextId, pending, updates, last

\* The arguments and the result of a call of computeSimpleDiff, and the call
\* of getDiff that is suspended at its first await.
VARIABLES diffOld, diffNew, diffOut, diffCall

\* The call of LLMProviderManager.generateText in progress: its options, the
\* provider names still to try, the attempts made so far and its outcome.
VARIABLES gwState, gwOptions, gwToTry, gwAttempts, gwResult, gwError

\* The orchestration service: the dependency files that exist on disk, the
\* call of executeAgentAction in progress, the first call that reached the
\* gateway with the prompt it passed, and the answer of the latest getAgent
\* or getAvailableAgents.
VARIABLES files, exState, exCall, exDepChecks, exWarnings, exPrompt,
          exGatewayCalls, exSession, exError, nextSessionId, exFirst, exRead

\* The startup load of the agent registry: the directory that is scanned,
\* the registry that results, and whether the load has run.
VARIABLES ldDirectory, agents, ldState

\* The usage monitor: its session buffer and its two counters, with the
\* sessions that callers are still to record and those recorded so far.
VARIABLES sessionMetrics, errorCount, totalRequests, umPending, umRecorded

\* The clock the monitor reads, the number of calls of recordError so far,
\* and the answer of its latest getGlobalMetrics or getSystemHealth.
VARIABLES umNow, umErrorCalls, umRead

\* The auth service: its users by id and its sessions by token, the clock,
\* the ids and tokens handed out so far, the latest call with its answer,
\* every token ever issued with its owner, its time of issue and whether it
\* was logged out, the users whose usage was raised without a passed check
\* of the limit, and the number of calls of updateTokenUsage.
VARIABLES users, sessions, auNow, nextUserId, nextToken, auLast, auIssued,
          auUnchecked, auUpdates

storeVars == <<storyFiles, versions, nextId, pending, updates, last>>

diffVars == <<diffOld, diffNew, diffOut, diffCall>>

gwVars == <<gwState, gwOptions, gwToTry, gwAttempts, gwResult, gwError>>

exVars == <<files, exState, exCall, exDepChecks, exWarnings, exPrompt,
            exGatewayCalls, exSession, exError, nextSessionId, exFirst, exRead>>

ldVars == <<ldDirectory, agents, ldState>>

umVars == <<sessionMetrics, errorCount, totalRequests, umPending, umRecorded,
           umNow, umErrorCalls, umRead>>

auVars == <<users, sessions, auNow, nextUserId, nextToken, auLast, auIssued,
           auUnchecked, auUpdates>>

vars == <<storeVars, diffVars, gwVars, exVars, ldVars, umVars, auVars>>

\* What a step of one component leaves alone: the variables of the others.
outsideStore == <<diffVars, gwVars, exVars, ldVars, umVars, auVars>>

outsideDiff == <<storeVars, gwVars, exVars, ldVars, umVars, auVars>>

outsideStoreAndDiff == <<gwVars, exVars, ldVars, umVars, auVars>>

outsideGateway == <<storeVars, diffVars, exVars, ldVars, umVars, auVars>>

outsideOrchestration == <<storeVars, diffVars, ldVars, umVars, auVars>>

outsideLoader == <<storeVars, diffVars, gwVars, exVars, umVars, auVars>>

outsideMonitor == <<storeVars, diffVars, gwVars, exVars, ldVars, auVars>>

outsideAuth == <<storeVars, diffVars, gwVars, exVars, ldVars, umVars>>

(***************************************************************************)
(* Bounds of the model.                                                    *)
(***************************************************************************)
MaxDocs == 1
MaxRecords == 3
MaxPending == 1
MaxLines == 3
MaxSessions == 2
MaxBlockLines == 4
MaxRecorded == 1001
MaxErrors == 2
MaxWorkload == 2
MaxDays == 1
MaxIssued == 2

MaxMs == 1
MaxUpdates == 2

(***************************************************************************)
(* Inputs the callers choose from.                                         *)
(***************************************************************************)
NL == "\n"

Contents == { <<>>, <<"a", NL, "b">> }

EmptyMeta == [k \in {} |-> ""]

InitialMetas == { EmptyMeta, [genre |-> "y", mood |-> "m"] }

Patches == { EmptyMeta, [genre |-> "x"] }

DefaultUser == "system"

Users == { DefaultUser, "alice" }

InitialMessage == <<"Initial creation">>

UpdateMessage == <<"Updated content">>

RevertMessage(targetVersion) == <<"Reverted to version", targetVersion>>

Ids == 1..MaxDocs

Targets == 0..MaxRecords

(***************************************************************************)
(* Helpers.                                                                *)
(***************************************************************************)
Null == <<>>

Some(x) == <<x>>

\* Spread with the precedence reversed: the keys of the first object win.
SpreadFirstWins(a, b) ==
  [k \in (DOMAIN a) \cup (DOMAIN b) |-> IF k \in DOMAIN a THEN a[k] ELSE b[k]]

\* { ...a, ...b }
Spread(a, b) ==
  [k \in (DOMAIN a) \cup (DOMAIN b) |-> IF k \in DOMAIN b THEN b[k] ELSE a[k]]

\* Map.set(key, value)
MapSet(m, key, value) ==
  [k \in (DOMAIN m) \cup {key} |-> IF k = key THEN value ELSE m[k]]

\* Map.delete(key)
MapDelete(m, key) == [k \in (DOMAIN m) \ {key} |-> m[k]]

NoCall ==
  [op |-> "none", id |-> 0, content |-> <<>>, target |-> 0, patch |-> EmptyMeta,
   outcome |-> "none", ret |-> Null]

Call(op, id, content, target, patch, outcome, ret) ==
  [op |-> op, id |-> id, content |-> content, target |-> target, patch |-> patch,
   outcome |-> outcome, ret |-> ret]

(***************************************************************************)
(* The store.                                                              *)
(***************************************************************************)
StoreInit ==
  /\ storyFiles = [k \in {} |-> 0]
  /\ versions = [k \in {} |-> 0]
  /\ nextId = 1
  /\ pending = <<>>
  /\ updates = [k \in {} |-> 0]
  /\ last = NoCall

RECURSIVE SumLen(_, _)
SumLen(vs, ids) ==
  IF ids = {} THEN 0
  ELSE LET id == CHOOSE i \in ids : TRUE
       IN Len(vs[id]) + SumLen(vs, ids \ {id})

\* Number of version records the store holds.
TotalRecords(vs) == SumLen(vs, DOMAIN vs)

\* this.versions.get(storyFileId) || []
versionsOf(vs, storyFileId) ==
  IF storyFileId \in DOMAIN vs THEN vs[storyFileId] ELSE <<>>

\* createVersion that stores the record over the latest one instead of pushing it.
createVersionOverwrite(vs, storyFileId, storyFile, commitMessage, createdBy) ==
  LET version == [version |-> storyFile.version,
                  content |-> storyFile.content,
                  metadata |-> storyFile.metadata,
                  createdBy |-> createdBy,
                  commitMessage |-> commitMessage]
      list == versionsOf(vs, storyFileId)
  IN MapSet(vs, storyFileId,
            IF list = <<>> THEN <<version>>
            ELSE [list EXCEPT ![Len(list)] = version])

\* createVersion when every record of the document shares one metadata object
\* that the update has changed in place.
createVersionSharedMetadata(vs, storyFileId, storyFile, commitMessage, createdBy) ==
  LET version == [version |-> storyFile.version,
                  content |-> storyFile.content,
                  metadata |-> storyFile.metadata,
                  createdBy |-> createdBy,
                  commitMessage |-> commitMessage]
      list == versionsOf(vs, storyFileId)
  IN MapSet(vs, storyFileId,
            Append([i \in 1..Len(list) |->
                      [list[i] EXCEPT !.metadata = storyFile.metadata]],
                   version))

\* The versions map after createVersion(storyFile, commitMessage, createdBy).
createVersion(vs, storyFileId, storyFile, commitMessage, createdBy) ==
  LET version == [version |-> storyFile.version,
                  content |-> storyFile.content,
                  metadata |-> storyFile.metadata,
                  createdBy |-> createdBy,
                  commitMessage |-> commitMessage]
  IN MapSet(vs, storyFileId, Append(versionsOf(vs, storyFileId), version))

\* getVersion that takes the version number for an index of the array.
getVersionByIndex(vs, storyFileId, version) ==
  LET list == versionsOf(vs, storyFileId)
  IN IF version + 1 \in 1..Len(list) THEN Some(list[version + 1]) ELSE Null

\* getVersion that falls back to the latest record when the search finds none.
getVersionOrLatest(vs, storyFileId, version) ==
  LET list == versionsOf(vs, storyFileId)
      hits == { i \in 1..Len(list) : list[i].version = version }
  IN IF list = <<>> THEN Null
     ELSE IF hits = {} THEN Some(list[Len(list)])
     ELSE Some(list[CHOOSE i \in hits : \A j \in hits : i <= j])

\* versions.find(v => v.version === version) || null
getVersion(vs, storyFileId, version) ==
  LET list == versionsOf(vs, storyFileId)
      hits == { i \in 1..Len(list) : list[i].version = version }
  IN IF hits = {} THEN Null
     ELSE Some(list[CHOOSE i \in hits : \A j \in hits : i <= j])

\* getVersions(storyFileId)
getVersions(storyFileId) == versionsOf(versions, storyFileId)

\* getStoryFile(storyFileId)
getStoryFile(storyFileId) ==
  IF storyFileId \in DOMAIN storyFiles THEN Some(storyFiles[storyFileId]) ELSE Null

\* updatedStoryFile without the increment of the version number.
updatedStoryFileSameVersion(storyFile, newContent, metadata) ==
  [content |-> newContent,
   version |-> storyFile.version,
   metadata |-> Spread(storyFile.metadata, metadata)]

\* The document as updateStoryFile leaves it when the content has changed.
updatedStoryFile(storyFile, newContent, metadata) ==
  [content |-> newContent,
   version |-> storyFile.version + 1,
   metadata |-> Spread(storyFile.metadata, metadata)]

\* updateStoryFile without the early return on unchanged content.
updateStoryFileAlways(op, storyFileId, target, newContent, commitMessage, updatedBy, metadata) ==
  IF storyFileId \notin DOMAIN storyFiles
  THEN /\ UNCHANGED <<storyFiles, versions, updates>>
       /\ last' = Call(op, storyFileId, newContent, target, metadata,
                       "StoryFileNotFound", Null)
  ELSE LET storyFile == updatedStoryFile(storyFiles[storyFileId], newContent, metadata)
       IN /\ TotalRecords(versions) < MaxRecords
          /\ storyFiles' = MapSet(storyFiles, storyFileId, storyFile)
          /\ versions' = createVersion(versions, storyFileId, storyFile,
                                       commitMessage, updatedBy)
          /\ updates' = MapSet(updates, storyFileId, updates[storyFileId] + 1)
          /\ last' = Call(op, storyFileId, newContent, target, metadata,
                          "returned", Some(storyFile))

\* The effect of the body of updateStoryFile on the two maps, and its outcome.
updateStoryFile(op, storyFileId, target, newContent, commitMessage, updatedBy, metadata) ==
  IF storyFileId \notin DOMAIN storyFiles
  THEN /\ UNCHANGED <<storyFiles, versions, updates>>
       /\ last' = Call(op, storyFileId, newContent, target, metadata,
                       "StoryFileNotFound", Null)
  ELSE IF storyFiles[storyFileId].content = newContent
  THEN /\ UNCHANGED <<storyFiles, versions, updates>>
       /\ last' = Call(op, storyFileId, newContent, target, metadata,
                       "returned", Some(storyFiles[storyFileId]))
  ELSE LET storyFile == updatedStoryFile(storyFiles[storyFileId], newContent, metadata)
       IN /\ TotalRecords(versions) < MaxRecords
          /\ storyFiles' = MapSet(storyFiles, storyFileId, storyFile)
          /\ versions' = createVersion(versions, storyFileId, storyFile,
                                       commitMessage, updatedBy)
          /\ updates' = MapSet(updates, storyFileId, updates[storyFileId] + 1)
          /\ last' = Call(op, storyFileId, newContent, target, metadata,
                          "returned", Some(storyFile))

\* generateId (a time stamp followed by a random suffix) is taken to return an
\* id no document has had: nextId counts the ids handed out.
CreateStoryFile ==
  \E initialContent \in Contents, metadata \in InitialMetas, createdBy \in Users :
    LET id == nextId
        storyFile == [content |-> initialContent, version |-> 1, metadata |-> metadata]
    IN /\ nextId <= MaxDocs
       /\ TotalRecords(versions) < MaxRecords
       /\ nextId' = nextId + 1
       /\ storyFiles' = MapSet(storyFiles, id, storyFile)
       /\ versions' = createVersion(versions, id, storyFile, InitialMessage, createdBy)
       /\ updates' = MapSet(updates, id, 0)
       /\ last' = Call("createStoryFile", id, initialContent, 0, metadata,
                       "returned", Some(storyFile))
       /\ UNCHANGED pending
       /\ UNCHANGED outsideStore

UpdateStoryFile ==
  \E storyFileId \in Ids, newContent \in Contents, metadata \in Patches,
     commit \in { <<UpdateMessage, DefaultUser>> } :
    /\ updateStoryFile("updateStoryFile", storyFileId, 0, newContent,
                       commit[1], commit[2], metadata)
    /\ UNCHANGED <<nextId, pending>>
    /\ UNCHANGED outsideStore

\* revertToVersion up to its await: the lookup of the target version.
RevertLookup ==
  \E storyFileId \in Ids, targetVersion \in Targets :
  \E commit \in { <<RevertMessage(targetVersion), DefaultUser>> } :
    LET targetVersionData == getVersion(versions, storyFileId, targetVersion)
    IN /\ IF targetVersionData = Null
          THEN /\ last' = Call("revertToVersion", storyFileId, <<>>, targetVersion,
                               EmptyMeta, "VersionNotFound", Null)
               /\ UNCHANGED pending
          ELSE /\ Len(pending) < MaxPending
               /\ pending' = Append(pending,
                                    [id |-> storyFileId, target |-> targetVersion,
                                     content |-> targetVersionData[1].content,
                                     msg |-> commit[1], by |-> commit[2]])
               /\ last' = Call("revertToVersion", storyFileId,
                               targetVersionData[1].content, targetVersion,
                               EmptyMeta, "await", Null)
       /\ UNCHANGED <<storyFiles, versions, nextId, updates>>
       /\ UNCHANGED outsideStore

\* A revert that rewinds the document in place to the target version.
RevertResumeRewind ==
  /\ pending # <<>>
  /\ LET call == Head(pending)
         list == versionsOf(versions, call.id)
     IN IF call.id \notin DOMAIN storyFiles
        THEN /\ UNCHANGED <<storyFiles, versions, updates>>
             /\ last' = Call("revertToVersion", call.id, call.content, call.target,
                             [revertedFrom |-> call.target], "StoryFileNotFound", Null)
        ELSE LET storyFile == [content |-> call.content, version |-> call.target,
                               metadata |-> list[call.target].metadata]
             IN /\ storyFiles' = MapSet(storyFiles, call.id, storyFile)
                /\ versions' = MapSet(versions, call.id, SubSeq(list, 1, call.target))
                /\ UNCHANGED updates
                /\ last' = Call("revertToVersion", call.id, call.content, call.target,
                                [revertedFrom |-> call.target], "returned",
                                Some(storyFile))
  /\ pending' = Tail(pending)
  /\ UNCHANGED nextId
  /\ UNCHANGED outsideStore

\* A revert that tags the metadata with the version it leaves, not the target.
RevertResumeWrongTag ==
  /\ pending # <<>>
  /\ LET call == Head(pending)
     IN updateStoryFile("revertToVersion", call.id, call.target, call.content,
                        call.msg, call.by,
                        [revertedFrom |->
                           IF call.id \in DOMAIN storyFiles
                           THEN storyFiles[call.id].version ELSE 0])
  /\ pending' = Tail(pending)
  /\ UNCHANGED nextId
  /\ UNCHANGED outsideStore

\* A revert that, once resumed, writes without looking again whether the
\* document is still there.
RevertResumeNoRecheck ==
  /\ pending # <<>>
  /\ LET call == Head(pending)
     IN IF call.id \in DOMAIN storyFiles
        THEN updateStoryFile("revertToVersion", call.id, call.target, call.content,
                             call.msg, call.by, [revertedFrom |-> call.target])
        ELSE LET storyFile == [content |-> call.content, version |-> call.target + 1,
                               metadata |-> [revertedFrom |-> call.target]]
             IN /\ storyFiles' = MapSet(storyFiles, call.id, storyFile)
                /\ versions' = createVersion(versions, call.id, storyFile,
                                             call.msg, call.by)
                /\ updates' = MapSet(updates, call.id, 0)
                /\ last' = Call("revertToVersion", call.id, call.content, call.target,
                                [revertedFrom |-> call.target], "returned",
                                Some(storyFile))
  /\ pending' = Tail(pending)
  /\ UNCHANGED nextId
  /\ UNCHANGED outsideStore

\* revertToVersion after its await: the call of updateStoryFile.
RevertResume ==
  /\ pending # <<>>
  /\ LET call == Head(pending)
     IN updateStoryFile("revertToVersion", call.id, call.target, call.content,
                        call.msg, call.by, [revertedFrom |-> call.target])
  /\ pending' = Tail(pending)
  /\ UNCHANGED nextId
  /\ UNCHANGED outsideStore

\* deleteStoryFile that removes the document and leaves its history.
DeleteStoryFileKeepsHistory ==
  \E storyFileId \in Ids :
    LET deleted == storyFileId \in DOMAIN storyFiles
    IN /\ storyFiles' = MapDelete(storyFiles, storyFileId)
       /\ versions' = versions
       /\ updates' = MapDelete(updates, storyFileId)
       /\ last' = Call("deleteStoryFile", storyFileId, <<>>, 0, EmptyMeta,
                       IF deleted THEN "true" ELSE "false", Null)
       /\ UNCHANGED <<nextId, pending>>
       /\ UNCHANGED outsideStore

DeleteStoryFile ==
  \E storyFileId \in Ids :
    LET deleted == storyFileId \in DOMAIN storyFiles
    IN /\ storyFiles' = MapDelete(storyFiles, storyFileId)
       /\ versions' = IF deleted THEN MapDelete(versions, storyFileId) ELSE versions
       /\ updates' = MapDelete(updates, storyFileId)
       /\ last' = Call("deleteStoryFile", storyFileId, <<>>, 0, EmptyMeta,
                       IF deleted THEN "true" ELSE "false", Null)
       /\ UNCHANGED <<nextId, pending>>
       /\ UNCHANGED outsideStore

StoreNext ==
  \/ CreateStoryFile
  \/ UpdateStoryFile
  \/ RevertLookup
  \/ RevertResume
  \/ DeleteStoryFile

(***************************************************************************)
(* computeSimpleDiff (lines 157-186), the positional line comparison that  *)
(* getDiff returns.                                                        *)
(***************************************************************************)
Line1 == <<"l", "i", "n", "e", "1">>

Line2 == <<"l", "i", "n", "e", "2">>

Line3 == <<"l", "i", "n", "e", "3">>

DiffLines == { <<>>, Line1, Line2, Line3 }

DiffLineSeqs == UNION { [1..n -> DiffLines] : n \in 1..MaxLines }

\* lines.join('\n')
RECURSIVE Join(_)
Join(lines) ==
  IF Len(lines) = 1 THEN lines[1]
  ELSE lines[1] \o <<NL>> \o Join(Tail(lines))

DiffInputs == { Join(lines) : lines \in DiffLineSeqs }

RECURSIVE SplitLines(_, _, _)
SplitLines(s, line, lines) ==
  IF s = <<>> THEN Append(lines, line)
  ELSE IF Head(s) = NL THEN SplitLines(Tail(s), <<>>, Append(lines, line))
  ELSE SplitLines(Tail(s), Append(line, Head(s)), lines)

\* content.split('\n'): the empty string gives one empty line.
split(content) == SplitLines(content, <<>>, <<>>)

Max(a, b) == IF a >= b THEN a ELSE b

\* diffStep that counts a changed line as an addition only.
diffStepModifyAdds(oldLines, newLines, i, diff) ==
  LET oldDefined == i + 1 <= Len(oldLines)
      newDefined == i + 1 <= Len(newLines)
  IN IF ~ oldDefined /\ newDefined
     THEN [additions |-> diff.additions + 1,
           deletions |-> diff.deletions,
           changes |-> Append(diff.changes,
                              [type |-> "add", lineNumber |-> i + 1,
                               content |-> newLines[i + 1]])]
     ELSE IF oldDefined /\ ~ newDefined
     THEN [additions |-> diff.additions,
           deletions |-> diff.deletions + 1,
           changes |-> Append(diff.changes,
                              [type |-> "delete", lineNumber |-> i + 1,
                               content |-> oldLines[i + 1]])]
     ELSE IF oldLines[i + 1] # newLines[i + 1]
     THEN [additions |-> diff.additions + 1,
           deletions |-> diff.deletions,
           changes |-> Append(diff.changes,
                              [type |-> "modify", lineNumber |-> i + 1,
                               content |-> newLines[i + 1]])]
     ELSE diff

\* One turn of the loop of computeSimpleDiff, for the 0-based index i.
diffStep(oldLines, newLines, i, diff) ==
  LET oldDefined == i + 1 <= Len(oldLines)
      newDefined == i + 1 <= Len(newLines)
  IN IF ~ oldDefined /\ newDefined
     THEN [additions |-> diff.additions + 1,
           deletions |-> diff.deletions,
           changes |-> Append(diff.changes,
                              [type |-> "add", lineNumber |-> i + 1,
                               content |-> newLines[i + 1]])]
     ELSE IF oldDefined /\ ~ newDefined
     THEN [additions |-> diff.additions,
           deletions |-> diff.deletions + 1,
           changes |-> Append(diff.changes,
                              [type |-> "delete", lineNumber |-> i + 1,
                               content |-> oldLines[i + 1]])]
     ELSE IF oldLines[i + 1] # newLines[i + 1]
     THEN [additions |-> diff.additions + 1,
           deletions |-> diff.deletions + 1,
           changes |-> Append(diff.changes,
                              [type |-> "modify", lineNumber |-> i + 1,
                               content |-> newLines[i + 1]])]
     ELSE diff

RECURSIVE diffLoop(_, _, _, _)
diffLoop(oldLines, newLines, i, diff) ==
  IF i >= Max(Len(oldLines), Len(newLines)) THEN diff
  ELSE diffLoop(oldLines, newLines, i + 1, diffStep(oldLines, newLines, i, diff))

computeSimpleDiff(oldContent, newContent) ==
  diffLoop(split(oldContent), split(newContent), 0,
           [additions |-> 0, deletions |-> 0, changes |-> <<>>])

DiffIdle == diffOld = <<>> /\ diffNew = <<>> /\ diffOut = Null /\ diffCall = Null

DiffInit ==
  /\ diffOld \in DiffInputs
  /\ diffNew \in DiffInputs
  /\ diffOut = Null
  /\ diffCall = Null

ComputeSimpleDiff ==
  /\ diffOut = Null
  /\ diffOut' = Some(computeSimpleDiff(diffOld, diffNew))
  /\ UNCHANGED <<diffOld, diffNew, diffCall>>
  /\ UNCHANGED outsideDiff

DiffNext == ComputeSimpleDiff

(***************************************************************************)
(* getDiff (lines 116-126).  It awaits each of its two lookups, so other   *)
(* calls can run between the lookup of the from-version and that of the    *)
(* to-version; nothing is read after the second await.                     *)
(***************************************************************************)
DiffCall(id, fromVersion, toVersion, outcome, ret) ==
  [op |-> "getDiff", id |-> id, content |-> <<>>, target |-> fromVersion,
   to |-> toVersion, patch |-> EmptyMeta, outcome |-> outcome, ret |-> ret]

\* getDiff up to its first await: the lookup of the from-version.
GetDiffFrom ==
  \E storyFileId \in Ids, fromVersion \in Targets, toVersion \in Targets :
    /\ diffCall = Null
    /\ diffCall' = Some([id |-> storyFileId, from |-> fromVersion, to |-> toVersion,
                         fromVersionData |->
                           getVersion(versions, storyFileId, fromVersion)])
    /\ last' = DiffCall(storyFileId, fromVersion, toVersion, "await", Null)
    /\ UNCHANGED <<storyFiles, versions, nextId, pending, updates>>
    /\ UNCHANGED <<diffOld, diffNew, diffOut>>
    /\ UNCHANGED outsideStoreAndDiff

\* getDiff that throws only when both versions are missing, and reads a
\* missing version as an empty one.
GetDiffToBothMissing ==
  /\ diffCall # Null
  /\ LET call == diffCall[1]
         fromVersionData == call.fromVersionData
         toVersionData == getVersion(versions, call.id, call.to)
         contentOf(data) == IF data = Null THEN <<>> ELSE data[1].content
     IN last' = IF fromVersionData = Null /\ toVersionData = Null
                THEN DiffCall(call.id, call.from, call.to, "VersionNotFound", Null)
                ELSE DiffCall(call.id, call.from, call.to, "returned",
                              Some(computeSimpleDiff(contentOf(fromVersionData),
                                                     contentOf(toVersionData))))
  /\ diffCall' = Null
  /\ UNCHANGED <<storyFiles, versions, nextId, pending, updates>>
  /\ UNCHANGED <<diffOld, diffNew, diffOut>>
  /\ UNCHANGED outsideStoreAndDiff

\* getDiff after its first await: the lookup of the to-version, the check
\* and the comparison.
GetDiffTo ==
  /\ diffCall # Null
  /\ LET call == diffCall[1]
         fromVersionData == call.fromVersionData
         toVersionData == getVersion(versions, call.id, call.to)
     IN last' = IF fromVersionData = Null \/ toVersionData = Null
                THEN DiffCall(call.id, call.from, call.to, "VersionNotFound", Null)
                ELSE DiffCall(call.id, call.from, call.to, "returned",
                              Some(computeSimpleDiff(fromVersionData[1].content,
                                                     toVersionData[1].content)))
  /\ diffCall' = Null
  /\ UNCHANGED <<storyFiles, versions, nextId, pending, updates>>
  /\ UNCHANGED <<diffOld, diffNew, diffOut>>
  /\ UNCHANGED outsideStoreAndDiff

\* The histories getDiff reads are built by createStoryFile and
\* updateStoryFile and removed by deleteStoryFile; a revert adds records only
\* through updateStoryFile.
GetDiffNext ==
  \/ CreateStoryFile
  \/ UpdateStoryFile
  \/ DeleteStoryFile
  \/ GetDiffFrom
  \/ GetDiffTo

(***************************************************************************)
(* The provider gateway (src/unnamed/part_001, the module the other files  *)
(* import as providers/llm-provider): three providers and the              *)
(* LLMProviderManager that tries them in turn.                             *)
(*                                                                         *)
(* An option that is absent is the empty string: the code tests options    *)
(* with `||` and `?:` only, which treat undefined and '' alike.  Amounts   *)
(* of money are in thousandths of a dollar, temperatures in tenths.        *)
(*                                                                         *)
(* The calls of the providers' APIs (callOpenAI, callAnthropic,            *)
(* callGemini) are placeholders that throw; they stand for network calls,  *)
(* so a call in flight may fail or deliver a reply.  generateText runs     *)
(* without interruption from its start, and from each failure, up to the   *)
(* next API call.                                                          *)
(***************************************************************************)
Absent == ""

fallbackOrderOpenAIFirst == <<"OpenAI", "Gemini", "Anthropic">>

\* LLMProviderManager.fallbackOrder
fallbackOrder == <<"Gemini", "OpenAI", "Anthropic">>

\* The keys of LLMProviderManager.providers
providers == {"Gemini", "OpenAI", "Anthropic"}

PreferredProviders == { Absent, "Gemini", "OpenAI", "Anthropic", "Mistral" }

CostPriorities == { Absent, "fast", "balanced", "quality" }

ModelOptions == { Absent, "custom-model" }

MaxTokensOptions == { 0, 500 }

TemperatureOptions == { 0, 2 }

GatewayOptions ==
  [preferredProvider : PreferredProviders, costPriority : CostPriorities,
   model : ModelOptions, maxTokens : MaxTokensOptions,
   temperature : TemperatureOptions]

\* What an API may answer: the text and the token count.
Replies == [text : {"Once", "Twice"}, tokens : {7, 9}]

Latencies == {0, 3}

\* a || b for a string a
OrElse(a, b) == IF a = Absent THEN b ELSE a

\* a || b for a number a
OrElseNumber(a, b) == IF a = 0 THEN b ELSE a

\* mapCostPriorityToModel of the three providers
mapCostPriorityToModel(provider, priority) ==
  CASE provider = "OpenAI" ->
         ( CASE priority = "fast" -> "gpt-3.5-turbo"
             [] priority = "quality" -> "gpt-4"
             [] OTHER -> "gpt-3.5-turbo" )
    [] provider = "Anthropic" ->
         ( CASE priority = "fast" -> "claude-3-haiku-20240307"
             [] priority = "quality" -> "claude-3-opus-20240229"
             [] OTHER -> "claude-3-sonnet-20240229" )
    [] provider = "Gemini" ->
         ( CASE priority = "fast" -> "gemini-pro"
             [] priority = "quality" -> "gemini-pro-vision"
             [] OTHER -> "gemini-pro" )

\* calculateCost of the three providers
calculateCost(provider, model, usage) ==
  CASE provider = "OpenAI" -> 10
    [] provider = "Anthropic" -> 20
    [] provider = "Gemini" -> 1

\* The parameters a provider passes to its API.
apiRequest(provider, options) ==
  [model |-> mapCostPriorityToModel(provider, OrElse(options.costPriority, "balanced")),
   max_tokens |-> OrElseNumber(options.maxTokens, 1000),
   temperature |-> OrElseNumber(options.temperature, 7)]

\* The LLMResponse a provider builds from the reply of its API.
llmResponse(provider, request, reply, latency) ==
  [text |-> reply.text,
   tokensUsed |-> reply.tokens,
   cost |-> calculateCost(provider, request.model, reply),
   metadata |-> [model |-> request.model, provider |-> provider, latency |-> latency]]

\* providersToTry without the filter on the fallback order.
providersToTryUnfiltered(options) ==
  IF options.preferredProvider # Absent
  THEN <<options.preferredProvider>> \o fallbackOrder
  ELSE fallbackOrder

\* providersToTry (lines 200-202)
providersToTry(options) ==
  IF options.preferredProvider # Absent
  THEN <<options.preferredProvider>>
         \o SelectSeq(fallbackOrder, LAMBDA p : p # options.preferredProvider)
  ELSE fallbackOrder

\* The loop of generateText from the names still to try up to the next API
\* call: names without a provider are passed over; with no name left the
\* call throws.
RECURSIVE tryNext(_, _, _)
tryNext(options, names, attempts) ==
  IF names = <<>>
  THEN /\ gwState' = "thrown"
       /\ gwError' = "All LLM providers failed"
       /\ gwToTry' = <<>>
       /\ gwAttempts' = attempts
  ELSE IF Head(names) \notin providers
  THEN tryNext(options, Tail(names), attempts)
  ELSE /\ gwState' = "awaiting"
       /\ gwError' = Absent
       /\ gwToTry' = Tail(names)
       /\ gwAttempts' = Append(attempts,
                               [provider |-> Head(names),
                                request |-> apiRequest(Head(names), options),
                                outcome |-> "pending",
                                reply |-> Null])

\* generateText (lines 199-209) up to the first API call.
generateText(options) ==
  /\ gwOptions' = options
  /\ gwResult' = Null
  /\ tryNext(options, providersToTry(options), <<>>)

GatewayInit ==
  /\ gwState = "idle"
  /\ gwOptions = [preferredProvider |-> Absent, costPriority |-> Absent,
                  model |-> Absent, maxTokens |-> 0, temperature |-> 0]
  /\ gwToTry = <<>>
  /\ gwAttempts = <<>>
  /\ gwResult = Null
  /\ gwError = Absent

\* A caller invokes LLMProviderManager.generateText.
GenerateText ==
  \E options \in GatewayOptions :
    /\ gwState \in {"idle", "returned", "thrown"}
    /\ generateText(options)
    /\ UNCHANGED outsideGateway

LastAttempt == gwAttempts[Len(gwAttempts)]

\* The API call in flight delivers a reply: the provider returns its
\* response and generateText returns it (lines 41-52, 209).
ProviderSucceeds ==
  \E reply \in Replies, latency \in Latencies :
    /\ gwState = "awaiting"
    /\ gwState' = "returned"
    /\ gwAttempts' = [gwAttempts EXCEPT ![Len(gwAttempts)] =
                        [@ EXCEPT !.outcome = "succeeded", !.reply = Some(reply)]]
    /\ gwResult' = Some(llmResponse(LastAttempt.provider, LastAttempt.request,
                                    reply, latency))
    /\ UNCHANGED <<gwOptions, gwToTry, gwError>>
    /\ UNCHANGED outsideGateway

\* A failure that is thrown on to the caller of generateText.
ProviderFailsAndThrows ==
  /\ gwState = "awaiting"
  /\ gwState' = "thrown"
  /\ gwError' = "All LLM providers failed"
  /\ gwAttempts' = [gwAttempts EXCEPT ![Len(gwAttempts)] = [@ EXCEPT !.outcome = "failed"]]
  /\ UNCHANGED <<gwOptions, gwResult, gwToTry>>
  /\ UNCHANGED outsideGateway

\* The API call in flight fails: the catch logs it and the loop goes on
\* (lines 210-216).
ProviderFails ==
  /\ gwState = "awaiting"
  /\ tryNext(gwOptions, gwToTry,
             [gwAttempts EXCEPT ![Len(gwAttempts)] = [@ EXCEPT !.outcome = "failed"]])
  /\ UNCHANGED <<gwOptions, gwResult>>
  /\ UNCHANGED outsideGateway

GatewayNext ==
  \/ GenerateText
  \/ ProviderSucceeds
  \/ ProviderFails

(***************************************************************************)
(* The agent loader (loadAgents, parseAgentFile and parseSimpleYAML of     *)
(* src/src/services/orchestration-service.ts).                             *)
(*                                                                         *)
(* A text is a sequence of characters, where a word without blanks,        *)
(* colons, quotes or hashes may stand as one character.  A value of the    *)
(* parser is a string, a plain object (a function from keys to values), an *)
(* array or undefined.  The object the parser writes to, currentObject, is *)
(* a reference into the result: it is kept as the path to that object, or  *)
(* as the kind of the value when that is not an object.                    *)
(***************************************************************************)
Str(s) == [kind |-> "string", str |-> s, obj |-> <<>>, arr |-> <<>>]

Obj(fields) == [kind |-> "object", str |-> <<>>, obj |-> fields, arr |-> <<>>]

Arr(items) == [kind |-> "array", str |-> <<>>, obj |-> <<>>, arr |-> items]

Undefined == [kind |-> "undefined", str |-> <<>>, obj |-> <<>>, arr |-> <<>>]

NoFields == [k \in {} |-> Undefined]

\* value[key] for the keys the code reads; undefined?.key is undefined.
Get(value, key) ==
  IF value.kind = "object" /\ key \in DOMAIN value.obj
  THEN value.obj[key]
  ELSE Undefined

\* What `||` and `if` take as true.
Truthy(value) ==
  \/ value.kind \in {"object", "array"}
  \/ value.kind = "string" /\ value.str # <<>>

\* The value at a path of keys below an object.
RECURSIVE GetPath(_, _)
GetPath(value, path) ==
  IF path = <<>> THEN value ELSE GetPath(Get(value, Head(path)), Tail(path))

\* object[key] = value for the object at a path below fields.
RECURSIVE SetAt(_, _, _, _)
SetAt(fields, path, key, value) ==
  IF path = <<>>
  THEN MapSet(fields, key, value)
  ELSE MapSet(fields, Head(path),
              Obj(SetAt(fields[Head(path)].obj, Tail(path), key, value)))

RECURSIVE TrimStart(_)
TrimStart(s) == IF s # <<>> /\ Head(s) = " " THEN TrimStart(Tail(s)) ELSE s

RECURSIVE TrimEnd(_)
TrimEnd(s) ==
  IF s # <<>> /\ s[Len(s)] = " " THEN TrimEnd(SubSeq(s, 1, Len(s) - 1)) ELSE s

\* s.trim()
trim(s) == TrimEnd(TrimStart(s))

startsWith(s, c) == s # <<>> /\ Head(s) = c

endsWith(s, c) == s # <<>> /\ s[Len(s)] = c

includes(s, c) == \E i \in 1..Len(s) : s[i] = c

indexOf(s, c) == CHOOSE i \in 1..Len(s) : s[i] = c /\ \A j \in 1..(i - 1) : s[j] # c

\* Lines 129-131: a value between double quotes loses them.
unquote(value) ==
  IF startsWith(value, "\"") /\ endsWith(value, "\"")
  THEN SubSeq(value, 2, Len(value) - 1)
  ELSE value

\* The reference to result[currentSection][key] (line 120).
refTo(fields, path) ==
  LET value == GetPath(Obj(fields), path)
  IN [kind |-> value.kind, path |-> IF value.kind = "object" THEN path ELSE <<>>]

ParseStart ==
  [result |-> NoFields, currentSection |-> <<>>,
   currentObject |-> [kind |-> "object", path |-> <<>>], threw |-> FALSE]

\* A line that ends with a colon (lines 116-125).  Writing a property of
\* undefined or of a string is a TypeError.
sectionLine(st, key) ==
  IF st.currentSection # <<>>
  THEN IF st.currentObject.kind # "object"
       THEN [st EXCEPT !.threw = TRUE]
       ELSE LET result == SetAt(st.result, st.currentObject.path, key, Obj(NoFields))
            IN [st EXCEPT !.result = result,
                          !.currentObject = refTo(result, <<st.currentSection, key>>)]
  ELSE [st EXCEPT !.result = MapSet(st.result, key, Obj(NoFields)),
                  !.currentSection = key,
                  !.currentObject = [kind |-> "object", path |-> <<key>>]]

\* A line with a colon inside (lines 126-132).
valueLine(st, trimmed) ==
  LET i == indexOf(trimmed, ":")
      key == trim(SubSeq(trimmed, 1, i - 1))
      value == trim(SubSeq(trimmed, i + 1, Len(trimmed)))
  IN IF st.currentObject.kind # "object"
     THEN [st EXCEPT !.threw = TRUE]
     ELSE [st EXCEPT !.result =
             SetAt(st.result, st.currentObject.path, key, Str(unquote(value)))]

\* The body of the loop of parseSimpleYAML (lines 112-133).
parseLine(st, line) ==
  LET trimmed == trim(line)
  IN IF st.threw \/ trimmed = <<>> \/ startsWith(trimmed, "#") THEN st
     ELSE IF endsWith(trimmed, ":")
     THEN sectionLine(st, SubSeq(trimmed, 1, Len(trimmed) - 1))
     ELSE IF includes(trimmed, ":") THEN valueLine(st, trimmed)
     ELSE st

RECURSIVE parseLines(_, _)
parseLines(st, lines) ==
  IF lines = <<>> THEN st ELSE parseLines(parseLine(st, Head(lines)), Tail(lines))

\* parseSimpleYAML: the result and whether a TypeError ended the parse.
parseSimpleYAML(yaml) == parseLines(ParseStart, split(yaml))

\* path.basename(filePath, '.md') for a file name that ends with '.md'.
basename(file) == SubSeq(file, 1, Len(file) - 1)

DefaultPersona ==
  Obj([k \in {<<"role">>, <<"style">>, <<"core_principles">>} |->
         IF k = <<"core_principles">> THEN Arr(<<>>) ELSE Str(<<>>)])

OrValue(value, fallback) == IF Truthy(value) THEN value ELSE fallback

\* The agent built at lines 90-97.
agentOf(agentData, file) ==
  [id |-> OrValue(Get(Get(agentData, <<"agent">>), <<"id">>), Str(basename(file))),
   name |-> OrValue(Get(Get(agentData, <<"agent">>), <<"name">>), Str(<<>>)),
   title |-> OrValue(Get(Get(agentData, <<"agent">>), <<"title">>), Str(<<>>)),
   persona |-> OrValue(Get(agentData, <<"persona">>), DefaultPersona),
   commands |-> OrValue(Get(agentData, <<"commands">>), Obj(NoFields)),
   dependencies |-> OrValue(Get(agentData, <<"dependencies">>), Obj(NoFields))]

\* parseAgentFile: a document is its file name and the text that the
\* pattern of line 82 captures between the fences, if there is one.  The
\* answer is null without a block and when the parser threw.
parseAgentFile(document) ==
  IF document.block = Null
  THEN Null
  ELSE LET st == parseSimpleYAML(document.block[1])
       IN IF st.threw THEN Null ELSE Some(agentOf(Obj(st.result), document.file))

\* Map.set on the registry, which keeps the order of first insertion.  Keys
\* that are objects are never equal to a key already there.
registrySet(registry, key, agent) ==
  IF key.kind = "string" /\ \E i \in 1..Len(registry) : registry[i].key = key
  THEN [i \in 1..Len(registry) |->
          IF registry[i].key = key THEN [key |-> key, agent |-> agent] ELSE registry[i]]
  ELSE Append(registry, [key |-> key, agent |-> agent])

\* The loop of loadAgents over the files whose name ends with '.md'.
RECURSIVE loadFiles(_, _)
loadFiles(registry, documents) ==
  IF documents = <<>>
  THEN registry
  ELSE LET agent == parseAgentFile(Head(documents))
       IN loadFiles(IF agent = Null THEN registry
                    ELSE registrySet(registry, agent[1].id, agent[1]),
                    Tail(documents))

\* loadAgents (lines 62-76)
loadAgents(directory) ==
  loadFiles(<<>>, SelectSeq(directory, LAMBDA d : endsWith(d.file, ".md")))

\* The lines that blocks are made of.
AgentLine == <<"agent", ":">>

PersonaLine == <<"persona", ":">>

CommandsLine == <<"commands", ":">>

DependenciesLine == <<"dependencies", ":">>

IdLine == <<" ", " ", "id", ":", " ", "writer">>

RoleLine == <<" ", " ", "role", ":", " ", "\"", "novelist", "\"">>

DataLine == <<" ", " ", "data", ":", " ", "g">>

ItemLine == <<" ", " ", "-", " ", "x">>

CommentLine == <<"#", " ", "note">>

BlockLines ==
  { AgentLine, PersonaLine, DependenciesLine, IdLine, RoleLine, DataLine,
    ItemLine, CommentLine }

\* An agent document as its format describes it: the four sections, each
\* with its entries.
WellFormedBlock ==
  Join(<< AgentLine,
          IdLine,
          <<" ", " ", "name", ":", " ", "Wren">>,
          <<" ", " ", "title", ":", " ", "Writer">>,
          PersonaLine,
          RoleLine,
          <<" ", " ", "style", ":", " ", "vivid">>,
          <<" ", " ", "core_principles", ":">>,
          <<" ", " ", " ", " ", "-", " ", "Show">>,
          CommandsLine,
          <<" ", " ", "help", ":", " ", "Show", " ", "help">>,
          DependenciesLine,
          <<" ", " ", "tasks", ":">>,
          <<" ", " ", " ", " ", "-", " ", "o">> >>)

\* The same four sections with every entry on one line.
FlatBlock ==
  Join(<< AgentLine, IdLine, PersonaLine, RoleLine,
          <<" ", " ", "core_principles", ":", " ", "Show">>,
          CommandsLine,
          <<" ", " ", "help", ":", " ", "Show", " ", "help">>,
          DependenciesLine,
          <<" ", " ", "tasks", ":", " ", "o">> >>)

\* The text between the fences starts and ends with a character that is
\* not white space, or is empty (the pattern of line 82).
IsCapture(text) ==
  \/ text = <<>>
  \/ /\ Head(text) \notin {" ", NL}
     /\ text[Len(text)] \notin {" ", NL}

EnumeratedBlocks ==
  { text \in { Join(lines) :
                 lines \in UNION { [1..n -> BlockLines] : n \in 1..MaxBlockLines } } :
      IsCapture(text) }

Blocks == EnumeratedBlocks \cup { <<>>, WellFormedBlock, FlatBlock }

WriterFile == <<"writer", ".md">>

EditorFile == <<"editor", ".md">>

\* The documents of the directories with several files.
WriterDocument == [file |-> WriterFile, block |-> Some(Join(<<AgentLine, IdLine>>))]

EditorDocument ==
  [file |-> EditorFile, block |-> Some(Join(<<DependenciesLine, DataLine>>))]

PersonaDocument == [file |-> WriterFile, block |-> Some(Join(<<PersonaLine, RoleLine>>))]

NestedDocument ==
  [file |-> EditorFile,
   block |-> Some(Join(<<DependenciesLine, <<" ", " ", "data", ":">>>>))]

WellFormedDocument == [file |-> EditorFile, block |-> Some(WellFormedBlock)]

NoBlockDocument == [file |-> <<"notes", ".md">>, block |-> Null]

BrokenDocument ==
  [file |-> <<"broken", ".md">>,
   block |-> Some(Join(<<AgentLine, PersonaLine, DependenciesLine, DataLine>>))]

TextFile == [file |-> <<"readme", ".txt">>, block |-> Some(Join(<<AgentLine, IdLine>>))]

MixedDocuments ==
  { WriterDocument, EditorDocument, PersonaDocument, NestedDocument,
    WellFormedDocument, NoBlockDocument, BrokenDocument, TextFile }

Directories ==
  { <<>> }
    \cup { <<[file |-> EditorFile, block |-> Some(block)]>> : block \in Blocks }
    \cup { <<a, b>> : a \in MixedDocuments, b \in MixedDocuments }

LoaderIdle ==
  /\ ldDirectory = <<>>
  /\ agents = <<>>
  /\ ldState = "loaded"

LoaderInit ==
  /\ ldDirectory \in Directories
  /\ agents = <<>>
  /\ ldState = "start"

\* The constructor runs loadAgents (line 59).
LoadAgents ==
  /\ ldState = "start"
  /\ ldState' = "loaded"
  /\ agents' = loadAgents(ldDirectory)
  /\ UNCHANGED ldDirectory
  /\ UNCHANGED outsideLoader

LoaderNext == LoadAgents

(***************************************************************************)
(* The orchestration service (src/src/services/orchestration-service.ts).  *)
(* executeAgentAction runs without interruption up to the await of         *)
(* loadAgentDependencies, then up to the await of the gateway, then to its *)
(* end.  The service owns its gateway, and a call of the gateway keeps no  *)
(* state beyond the call, so one call of executeAgentAction at a time is   *)
(* followed.  The registry is the one the constructor loaded.              *)
(***************************************************************************)
\* The directories the service is constructed on: none of the documents;
\* two whose agents can be run; two whose agents make executeAgentAction
\* throw a TypeError.
OrchDirectories ==
  { <<>>,
    <<WriterDocument, EditorDocument>>,
    <<PersonaDocument, NestedDocument>> }

DependencyFiles == { <<"data", "g">> }

AgentIds == { "writer", "editor", "ghost" }

Actions == { "draft" }

StoryContexts == { "ctx" }

\* The keys of inputs in the order they were written.
InputKeys == <<"userId", "projectId", "storyFileId">>

ExecInputs ==
  { EmptyMeta,
    [userId |-> ""],
    [userId |-> "u1", projectId |-> "p1", storyFileId |-> "s1"] }

NoOptions ==
  [preferredProvider |-> Absent, costPriority |-> Absent, model |-> Absent,
   maxTokens |-> 0, temperature |-> 0]

ExecOptions ==
  { NoOptions,
    [preferredProvider |-> Absent, costPriority |-> "quality",
     model |-> "custom-model", maxTokens |-> 500, temperature |-> 2] }

Times == { 100, 101 }

NoExec ==
  [agentId |-> Absent, action |-> Absent, inputs |-> EmptyMeta,
   storyContext |-> Absent, options |-> NoOptions]

NoRead == [op |-> "none", id |-> Absent, ret |-> <<>>]

\* The message of the error thrown for an unknown agent (line 147).
AgentNotFound(agentId) == <<"Agent ", agentId, " not found">>

\* The TypeError of iterating over what is not iterable (line 187) or of
\* calling map on what has none (line 209).
TypeError(where) == <<"TypeError", where>>

\* this.agents.get(agentId): null when there is no such key.
agentsGet(registry, agentId) ==
  LET found == SelectSeq(registry, LAMBDA e : e.key = Str(<<agentId>>))
  IN IF found = <<>> THEN Null ELSE Some(found[1].agent)

\* inputs.key ?? fallback: only an absent key gives the fallback.
InputOrIfAbsent(inputs, key, fallback) ==
  IF key \in DOMAIN inputs THEN inputs[key] ELSE fallback

\* inputs.key || fallback
InputOr(inputs, key, fallback) ==
  IF key \in DOMAIN inputs /\ inputs[key] # Absent THEN inputs[key] ELSE fallback

\* The paths that one dependency type makes loadAgentDependencies check: a
\* string is gone through character by character, an array item by item.
depPathsOf(depType, value) ==
  LET deps == IF value.kind = "string" THEN value.str
              ELSE [i \in 1..Len(value.arr) |-> value.arr[i].str]
  IN [i \in 1..Len(deps) |-> <<depType, deps[i]>>]

\* The loop of loadAgentDependencies (lines 185-194) over the dependency
\* types that are left: the paths checked so far, and whether the loop
\* threw because a value could not be iterated over.
RECURSIVE dependencyPaths(_, _, _)
dependencyPaths(agent, depTypes, checked) ==
  IF depTypes = <<>>
  THEN [checked |-> checked, threw |-> FALSE]
  ELSE LET value == Get(agent.dependencies, <<Head(depTypes)>>)
       IN IF ~Truthy(value)
          THEN dependencyPaths(agent, Tail(depTypes), checked)
          ELSE IF value.kind = "object"
          THEN [checked |-> checked, threw |-> TRUE]
          ELSE dependencyPaths(agent, Tail(depTypes),
                               checked \o depPathsOf(Head(depTypes), value))

\* loadAgentDependencies that fails when a dependency is not on disk.
loadAgentDependenciesStrict(agent, existing) ==
  LET loop == dependencyPaths(agent, <<"data", "tasks", "templates", "utils">>, <<>>)
      warned == SelectSeq(loop.checked, LAMBDA depPath : depPath \notin existing)
  IN [checked |-> loop.checked,
      warned |-> warned,
      threw |-> loop.threw \/ warned # <<>>]

\* loadAgentDependencies: the paths checked, the ones warned about, and
\* whether it threw.
loadAgentDependencies(agent, existing) ==
  LET loop == dependencyPaths(agent, <<"data", "tasks", "templates", "utils">>, <<>>)
  IN [checked |-> loop.checked,
      warned |-> SelectSeq(loop.checked, LAMBDA depPath : depPath \notin existing),
      threw |-> loop.threw]

\* `${value}`
RECURSIVE toText(_)
toText(value) ==
  CASE value.kind = "string" -> value.str
    [] value.kind = "undefined" -> <<"undefined">>
    [] value.kind = "object" -> <<"[object Object]">>
    [] value.kind = "array" ->
         IF value.arr = <<>> THEN <<>>
         ELSE IF Len(value.arr) = 1 THEN toText(value.arr[1])
         ELSE toText(value.arr[1]) \o <<",">> \o toText(Arr(Tail(value.arr)))

\* lines.join('\n') of any number of lines
JoinLines(lines) == IF lines = <<>> THEN <<>> ELSE Join(lines)

\* Object.entries(inputs).map(([k, v]) => `${k}: ${v}`)
inputLines(inputs) ==
  LET keys == SelectSeq(InputKeys, LAMBDA k : k \in DOMAIN inputs)
  IN [i \in 1..Len(keys) |-> <<keys[i], ": ", inputs[keys[i]]>>]

\* buildAgentPrompt (lines 203-220): the text, or a TypeError when the
\* persona has no array of principles to map over.  The trim of line 220
\* removes the white space of the template only.
buildAgentPrompt(agent, action, inputs, storyContext) ==
  LET principles == Get(agent.persona, <<"core_principles">>)
  IN [threw |-> principles.kind # "array",
      text |->
        IF principles.kind # "array" THEN <<>>
        ELSE Join(<< <<"You are ">> \o toText(agent.name) \o <<", ">>
                        \o toText(Get(agent.persona, <<"role">>)) \o <<".">>,
                     <<>>,
                     toText(Get(agent.persona, <<"style">>)),
                     <<>>,
                     <<"Core Principles:">>,
                     JoinLines([i \in 1..Len(principles.arr) |->
                                  <<"- ">> \o toText(principles.arr[i])]),
                     <<>>,
                     <<"Current Story Context:">>,
                     <<storyContext>>,
                     <<>>,
                     <<"User Request: ", action>>,
                     <<>>,
                     <<"Additional Inputs:">>,
                     JoinLines(inputLines(inputs)),
                     <<>>,
                     <<"Please provide your expert response as ">>
                        \o toText(agent.name) \o <<".">> >>)]

\* The session record of lines 160-177.
agentSession(id, call, response, createdAt, updatedAt) ==
  [id |-> id,
   agentId |-> call.agentId,
   userId |-> InputOr(call.inputs, "userId", "anonymous"),
   projectId |-> InputOr(call.inputs, "projectId", "default"),
   storyFileId |-> InputOr(call.inputs, "storyFileId", "default"),
   inputs |-> call.inputs,
   outputs |-> [response |-> response.text],
   llmMetadata |-> [provider |-> response.metadata.provider,
                    model |-> response.metadata.model,
                    tokensUsed |-> response.tokensUsed,
                    cost |-> response.cost,
                    latency |-> response.metadata.latency],
   createdAt |-> createdAt,
   updatedAt |-> updatedAt]

OrchIdle ==
  /\ exState = "idle"
  /\ exCall = NoExec
  /\ exDepChecks = <<>>
  /\ exWarnings = <<>>
  /\ exPrompt = <<>>
  /\ exGatewayCalls = 0
  /\ exSession = Null
  /\ exError = <<>>
  /\ nextSessionId = 1
  /\ exFirst = Null
  /\ exRead = NoRead

\* The other components run beside a service whose registry is empty.
OrchAbsent ==
  /\ LoaderIdle
  /\ files = {}
  /\ OrchIdle

\* The service before its constructor has loaded the agents.
OrchInit ==
  /\ ldDirectory \in OrchDirectories
  /\ agents = <<>>
  /\ ldState = "start"
  /\ files \in SUBSET DependencyFiles
  /\ OrchIdle

\* executeAgentAction that reaches the gateway before it reports an unknown
\* agent.
ExecuteAgentActionLateLookup ==
  \E agentId \in AgentIds, action \in Actions, inputs \in ExecInputs,
     storyContext \in StoryContexts, options \in ExecOptions :
    LET agent == agentsGet(agents, agentId)
        deps == loadAgentDependencies(agent[1], files)
    IN
    /\ ldState = "loaded"
    /\ exState \in {"idle", "returned", "thrown"}
    /\ gwState \in {"idle", "returned", "thrown"}
    /\ nextSessionId <= MaxSessions
    /\ exCall' = [agentId |-> agentId, action |-> action, inputs |-> inputs,
                  storyContext |-> storyContext, options |-> options]
    /\ exSession' = Null
    /\ exPrompt' = <<>>
    /\ IF agent = Null
       THEN /\ exState' = "thrown"
            /\ exError' = AgentNotFound(agentId)
            /\ exDepChecks' = <<>>
            /\ exWarnings' = <<>>
            /\ exGatewayCalls' = 1
            /\ generateText(options)
       ELSE /\ exState' = IF deps.threw THEN "thrown" ELSE "dependencies"
            /\ exError' = IF deps.threw THEN TypeError("dependencies") ELSE <<>>
            /\ exDepChecks' = deps.checked
            /\ exWarnings' = deps.warned
            /\ exGatewayCalls' = 0
            /\ UNCHANGED gwVars
    /\ UNCHANGED <<files, nextSessionId, exFirst>>
    /\ exRead' = NoRead
    /\ UNCHANGED outsideOrchestration

\* executeAgentAction with the dependency check that fails on a missing file.
ExecuteAgentActionStrict ==
  \E agentId \in AgentIds, action \in Actions, inputs \in ExecInputs,
     storyContext \in StoryContexts, options \in ExecOptions :
    LET agent == agentsGet(agents, agentId)
        deps == loadAgentDependenciesStrict(agent[1], files)
    IN
    /\ ldState = "loaded"
    /\ exState \in {"idle", "returned", "thrown"}
    /\ gwState \in {"idle", "returned", "thrown"}
    /\ nextSessionId <= MaxSessions
    /\ exCall' = [agentId |-> agentId, action |-> action, inputs |-> inputs,
                  storyContext |-> storyContext, options |-> options]
    /\ exSession' = Null
    /\ exPrompt' = <<>>
    /\ exGatewayCalls' = 0
    /\ IF agent = Null
       THEN /\ exState' = "thrown"
            /\ exError' = AgentNotFound(agentId)
            /\ exDepChecks' = <<>>
            /\ exWarnings' = <<>>
       ELSE /\ exState' = IF deps.threw THEN "thrown" ELSE "dependencies"
            /\ exError' = IF deps.threw THEN TypeError("dependencies") ELSE <<>>
            /\ exDepChecks' = deps.checked
            /\ exWarnings' = deps.warned
    /\ UNCHANGED <<files, nextSessionId, exFirst>>
    /\ exRead' = NoRead
    /\ UNCHANGED gwVars
    /\ UNCHANGED outsideOrchestration

\* executeAgentAction up to its first await (lines 145-151): the lookup of
\* the agent, then the whole of loadAgentDependencies, whose TypeError
\* rejects the call.
ExecuteAgentAction ==
  \E agentId \in AgentIds, action \in Actions, inputs \in ExecInputs,
     storyContext \in StoryContexts, options \in ExecOptions :
    LET agent == agentsGet(agents, agentId)
        deps == loadAgentDependencies(agent[1], files)
    IN
    /\ ldState = "loaded"
    /\ exState \in {"idle", "returned", "thrown"}
    /\ gwState \in {"idle", "returned", "thrown"}
    /\ nextSessionId <= MaxSessions
    /\ exCall' = [agentId |-> agentId, action |-> action, inputs |-> inputs,
                  storyContext |-> storyContext, options |-> options]
    /\ exSession' = Null
    /\ exPrompt' = <<>>
    /\ exGatewayCalls' = 0
    /\ IF agent = Null
       THEN /\ exState' = "thrown"
            /\ exError' = AgentNotFound(agentId)
            /\ exDepChecks' = <<>>
            /\ exWarnings' = <<>>
       ELSE /\ exState' = IF deps.threw THEN "thrown" ELSE "dependencies"
            /\ exError' = IF deps.threw THEN TypeError("dependencies") ELSE <<>>
            /\ exDepChecks' = deps.checked
            /\ exWarnings' = deps.warned
    /\ UNCHANGED <<files, nextSessionId, exFirst>>
    /\ exRead' = NoRead
    /\ UNCHANGED gwVars
    /\ UNCHANGED outsideOrchestration

\* The await of line 157 is over: the call of generateText has delivered its
\* outcome and nothing of it is left.
awaitDone ==
  /\ gwState' = "idle"
  /\ gwOptions' = NoOptions
  /\ gwToTry' = <<>>
  /\ gwAttempts' = <<>>
  /\ gwResult' = Null
  /\ gwError' = Absent

\* The prompt of the call in progress.
promptOfCall ==
  buildAgentPrompt(agentsGet(agents, exCall.agentId)[1], exCall.action,
                   exCall.inputs, exCall.storyContext)

\* The call in progress without its options: what the prompt is built from.
promptInputs ==
  [agentId |-> exCall.agentId, action |-> exCall.action,
   inputs |-> exCall.inputs, storyContext |-> exCall.storyContext]

\* Line 154 when buildAgentPrompt throws: the call is rejected and the
\* gateway is not called.
ExecPromptThrows ==
  /\ exState = "dependencies"
  /\ promptOfCall.threw
  /\ exState' = "thrown"
  /\ exError' = TypeError("core_principles")
  /\ UNCHANGED <<files, exCall, exDepChecks, exWarnings, exPrompt,
                 exGatewayCalls, exSession, nextSessionId, exFirst>>
  /\ exRead' = NoRead
  /\ UNCHANGED gwVars
  /\ UNCHANGED outsideOrchestration

\* The gateway called with a prompt that carries the number of sessions
\* made so far.
ExecCallGatewayCounting ==
  /\ exState = "dependencies"
  /\ ~promptOfCall.threw
  /\ exState' = "llm"
  /\ exPrompt' = promptOfCall.text \o <<NL, "session ", nextSessionId>>
  /\ exGatewayCalls' = exGatewayCalls + 1
  /\ exFirst' = IF exFirst = Null
                THEN Some([call |-> promptInputs,
                           prompt |-> promptOfCall.text \o <<NL, "session ", nextSessionId>>])
                ELSE exFirst
  /\ generateText(exCall.options)
  /\ UNCHANGED <<files, exCall, exDepChecks, exWarnings, exSession,
                 exError, nextSessionId>>
  /\ exRead' = NoRead
  /\ UNCHANGED outsideOrchestration

\* Lines 154-157: the prompt is built and the gateway is called.
ExecCallGateway ==
  /\ exState = "dependencies"
  /\ ~promptOfCall.threw
  /\ exState' = "llm"
  /\ exPrompt' = promptOfCall.text
  /\ exGatewayCalls' = exGatewayCalls + 1
  /\ exFirst' = IF exFirst = Null
                THEN Some([call |-> promptInputs, prompt |-> promptOfCall.text])
                ELSE exFirst
  /\ generateText(exCall.options)
  /\ UNCHANGED <<files, exCall, exDepChecks, exWarnings, exSession,
                 exError, nextSessionId>>
  /\ exRead' = NoRead
  /\ UNCHANGED outsideOrchestration

\* Lines 160-179: the gateway has returned; the session is built from its
\* response and two readings of the clock.
ExecReturn ==
  \E createdAt \in Times, updatedAt \in Times :
    /\ exState = "llm"
    /\ gwState = "returned"
    /\ createdAt <= updatedAt
    /\ exState' = "returned"
    /\ exSession' = Some(agentSession(nextSessionId, exCall, gwResult[1],
                                      createdAt, updatedAt))
    /\ nextSessionId' = nextSessionId + 1
    /\ UNCHANGED <<files, exCall, exDepChecks, exWarnings, exPrompt,
                   exGatewayCalls, exError, exFirst>>
    /\ exRead' = NoRead
    /\ awaitDone
    /\ UNCHANGED outsideOrchestration

\* A failure of the gateway that is answered with a session without a
\* response.
ExecThrowReturnsSession ==
  /\ exState = "llm"
  /\ gwState = "thrown"
  /\ exState' = "returned"
  /\ exSession' = Some([id |-> nextSessionId, agentId |-> exCall.agentId])
  /\ nextSessionId' = nextSessionId + 1
  /\ UNCHANGED <<files, exCall, exDepChecks, exWarnings, exPrompt,
                 exGatewayCalls, exError, exFirst>>
  /\ exRead' = NoRead
  /\ awaitDone
  /\ UNCHANGED outsideOrchestration

\* Line 157: the gateway has thrown; nothing catches the error, which
\* rejects executeAgentAction.
ExecThrow ==
  /\ exState = "llm"
  /\ gwState = "thrown"
  /\ exState' = "thrown"
  /\ exError' = <<gwError>>
  /\ UNCHANGED <<files, exCall, exDepChecks, exWarnings, exPrompt,
                 exGatewayCalls, exSession, nextSessionId, exFirst>>
  /\ exRead' = NoRead
  /\ awaitDone
  /\ UNCHANGED outsideOrchestration

\* getAgent that takes the agent out of the registry.
GetAgentRemoves ==
  \E agentId \in AgentIds :
    /\ ldState = "loaded"
    /\ exRead' = [op |-> "getAgent", id |-> agentId, ret |-> agentsGet(agents, agentId)]
    /\ agents' = SelectSeq(agents, LAMBDA e : e.key # Str(<<agentId>>))
    /\ UNCHANGED <<ldDirectory, ldState>>
    /\ UNCHANGED <<files, exState, exCall, exDepChecks, exWarnings, exPrompt,
                   exGatewayCalls, exSession, exError, nextSessionId, exFirst>>
    /\ UNCHANGED <<storeVars, diffVars, gwVars, umVars, auVars>>

\* getAgent (lines 227-229)
GetAgent ==
  \E agentId \in AgentIds :
    /\ ldState = "loaded"
    /\ exRead' = [op |-> "getAgent", id |-> agentId, ret |-> agentsGet(agents, agentId)]
    /\ UNCHANGED <<files, exState, exCall, exDepChecks, exWarnings, exPrompt,
                   exGatewayCalls, exSession, exError, nextSessionId, exFirst>>
    /\ UNCHANGED gwVars
    /\ UNCHANGED outsideOrchestration

\* getAvailableAgents (lines 223-225)
GetAvailableAgents ==
  /\ ldState = "loaded"
  /\ exRead' = [op |-> "getAvailableAgents", id |-> Absent,
                ret |-> [i \in 1..Len(agents) |-> agents[i].agent]]
  /\ UNCHANGED <<files, exState, exCall, exDepChecks, exWarnings, exPrompt,
                 exGatewayCalls, exSession, exError, nextSessionId, exFirst>>
  /\ UNCHANGED gwVars
  /\ UNCHANGED outsideOrchestration

OrchNext ==
  \/ LoadAgents
  \/ ExecuteAgentAction
  \/ ExecPromptThrows
  \/ ExecCallGateway
  \/ ProviderSucceeds
  \/ ProviderFails
  \/ ExecReturn
  \/ ExecThrow
  \/ GetAgent
  \/ GetAvailableAgents

(***************************************************************************)
(* The usage monitor (usage-monitor.ts).  A session is the AgentSession    *)
(* that executeAgentAction returns; the callers' sessions wait in          *)
(* umPending until recordSession is called with them.                      *)
(***************************************************************************)
\* The length above which recordSession cuts the buffer, and the number of
\* sessions it keeps (lines 53-54).
SessionCapacity == 1000

\* Array.prototype.slice(0, count): the first elements.
sliceFromStart(arr, count) ==
  IF count >= Len(arr) THEN arr ELSE SubSeq(arr, 1, count)

\* Array.prototype.slice(-count): the last elements.
sliceFromEnd(arr, count) ==
  IF count >= Len(arr) THEN arr ELSE SubSeq(arr, Len(arr) - count + 1, Len(arr))

\* The session of the n-th call of a caller that runs the same agent action
\* again and again: executeAgentAction numbers them, the clock moves on.
SessionNumber(n) ==
  agentSession(n,
               [agentId |-> "writer", action |-> "draft", inputs |-> EmptyMeta,
                storyContext |-> "ctx", options |-> NoOptions],
               llmResponse("Gemini", apiRequest("Gemini", NoOptions),
                           [text |-> "Once", tokens |-> 7], 3),
               n, n)

\* 24 * 60 * 60 * 1000: the milliseconds of a day (lines 64 and 208).
DayMs == 24 * 60 * 60 * 1000

\* The time at which the monitor is constructed: the sessions of the
\* workloads were created in the day and a millisecond before it.
StartTime == DayMs + 1

\* The number that getTotalUsers returns (line 215).
TotalUsers == 150

NoMetricsRead == [op |-> "none", now |-> 0, ret |-> <<>>]

\* A session as the monitor reads it: its agent, its user, the tokens and
\* the latency of its response, and the time of its creation.
sessionOf(id, agentId, userId, tokens, latency, createdAt) ==
  agentSession(id,
               [agentId |-> agentId, action |-> "draft", inputs |-> [userId |-> userId],
                storyContext |-> "ctx", options |-> NoOptions],
               llmResponse("Gemini", apiRequest("Gemini", NoOptions),
                           [text |-> "Once", tokens |-> tokens], latency),
               createdAt, createdAt)

\* Sessions at the thresholds of getSystemHealth and at the edge of the
\* window of getGlobalMetrics: the third was created exactly 24 hours before
\* StartTime, the fifth a millisecond earlier.
SampleSessions ==
  << sessionOf(1, "writer", "u1", 7, 5000, StartTime),
     sessionOf(2, "editor", "u2", 9, 5001, StartTime),
     sessionOf(3, "writer", "u1", 7, 10000, StartTime - DayMs),
     sessionOf(4, "editor", "u1", 9, 10001, StartTime),
     sessionOf(5, "writer", "u2", 9, 10001, StartTime - DayMs - 1) >>

\* Seven agents, one of them with sessions older than a day only, and two
\* pairs of agents with equal counts.
AgentsSessions ==
  LET agentIds == <<"plot", "old", "character", "world", "character", "old",
                    "editor", "beta", "cover", "cover", "old">>
  IN [n \in 1..Len(agentIds) |->
        sessionOf(n, agentIds[n], "u1", 7, 3,
                  IF agentIds[n] = "old" THEN StartTime - DayMs - 1 ELSE StartTime)]

\* Twenty-one sessions whose latencies are all different and not in order.
LatencySessions ==
  [n \in 1..21 |-> sessionOf(n, "writer", "u1", 7, ((n * 8) % 21) * 100, StartTime)]

\* The buffer holds references to the session objects of its callers.  A
\* reference is a number: n > 0 for the n-th session of the long workload,
\* and below 0 for the sessions above.
SampleRefs == { 0 - n : n \in 1..Len(SampleSessions) }

AgentsWorkload == [n \in 1..Len(AgentsSessions) |-> 0 - (100 + n)]

LatencyWorkload == [n \in 1..Len(LatencySessions) |-> 0 - (200 + n)]

\* The session object behind a reference.
sessionAt(ref) ==
  IF ref > 0 THEN SessionNumber(ref)
  ELSE IF ref >= 0 - 100 THEN SampleSessions[0 - ref]
  ELSE IF ref >= 0 - 200 THEN AgentsSessions[0 - ref - 100]
  ELSE LatencySessions[0 - ref - 200]

\* this.sessionMetrics as the array of the objects.
sessionsOf(refs) == [i \in 1..Len(refs) |-> sessionAt(refs[i])]

\* The sessions of MaxRecorded calls.
Workload == [n \in 1..MaxRecorded |-> n]

\* The sessions that the callers of the monitor record.
Workloads ==
  UNION { [1..n -> SampleRefs] : n \in 0..MaxWorkload }
    \cup { AgentsWorkload, LatencyWorkload }

\* The monitor constructed, one of the workloads to come.
MetricsInit ==
  /\ sessionMetrics = <<>>
  /\ errorCount = 0
  /\ totalRequests = 0
  /\ umPending \in Workloads
  /\ umRecorded = <<>>
  /\ umNow = StartTime
  /\ umErrorCalls = 0
  /\ umRead = NoMetricsRead

MonitorIdle ==
  /\ sessionMetrics = <<>>
  /\ errorCount = 0
  /\ totalRequests = 0
  /\ umPending = <<>>
  /\ umRecorded = <<>>
  /\ umNow = StartTime
  /\ umErrorCalls = 0
  /\ umRead = NoMetricsRead

\* The fields as they are declared (lines 34-36), the workload to come.
MonitorInit ==
  /\ sessionMetrics = <<>>
  /\ errorCount = 0
  /\ totalRequests = 0
  /\ umPending = Workload
  /\ umRecorded = <<>>
  /\ umNow = StartTime
  /\ umErrorCalls = 0
  /\ umRead = NoMetricsRead

\* recordSession counting the sessions of the buffer as the requests.
RecordSessionWindowed ==
  /\ umPending # <<>>
  /\ LET session == Head(umPending)
         pushed == Append(sessionMetrics, session)
     IN /\ sessionMetrics' = IF Len(pushed) > SessionCapacity
                             THEN sliceFromEnd(pushed, SessionCapacity)
                             ELSE pushed
        /\ umRecorded' = Append(umRecorded, session)
  /\ totalRequests' = Len(sessionMetrics')
  /\ umPending' = Tail(umPending)
  /\ umRead' = NoMetricsRead
  /\ UNCHANGED <<errorCount, umNow, umErrorCalls>>
  /\ UNCHANGED outsideMonitor

\* recordSession (lines 48-56)
RecordSession ==
  /\ umPending # <<>>
  /\ LET session == Head(umPending)
         pushed == Append(sessionMetrics, session)
     IN /\ sessionMetrics' = IF Len(pushed) > SessionCapacity
                             THEN sliceFromEnd(pushed, SessionCapacity)
                             ELSE pushed
        /\ umRecorded' = Append(umRecorded, session)
  /\ totalRequests' = totalRequests + 1
  /\ umPending' = Tail(umPending)
  /\ umRead' = NoMetricsRead
  /\ UNCHANGED <<errorCount, umNow, umErrorCalls>>
  /\ UNCHANGED outsideMonitor

\* recordError (lines 58-60)
RecordError ==
  /\ umErrorCalls < MaxErrors
  /\ errorCount' = errorCount + 1
  /\ umErrorCalls' = umErrorCalls + 1
  /\ umRead' = NoMetricsRead
  /\ UNCHANGED <<sessionMetrics, totalRequests, umPending, umRecorded, umNow>>
  /\ UNCHANGED outsideMonitor

RECURSIVE gcd(_, _)
gcd(a, b) == IF b = 0 THEN a ELSE gcd(b, a % b)

\* The quotient a / b of two whole numbers, b > 0, kept as the fraction in
\* lowest terms: the divisions of lines 90 and 103 are not rounded here.
Divide(a, b) == [num |-> a \div gcd(a, b), den |-> b \div gcd(a, b)]

\* fraction > k
GreaterThan(fraction, k) == fraction.num > k * fraction.den

\* reduce((sum, x) => sum + x, 0)
RECURSIVE reduceSum(_)
reduceSum(numbers) ==
  IF numbers = <<>> THEN 0 ELSE Head(numbers) + reduceSum(Tail(numbers))

\* arr.map(f)
mapSeq(arr, f(_)) == [i \in 1..Len(arr) |-> f(arr[i])]

\* The filter of line 67 without the comparison: every session is recent.
recentSessionsAll(metrics, now) == metrics

\* The sessions created in the 24 hours before now (lines 63-67).
recentSessions(metrics, now) ==
  SelectSeq(metrics, LAMBDA s : s.createdAt >= now - DayMs)

\* The number of different user ids (lines 74-75).
activeUsers(recent) == Cardinality({ recent[i].userId : i \in 1..Len(recent) })

\* agentUsage.set(agentId, (agentUsage.get(agentId) || 0) + 1): the Map
\* keeps its keys in the order of their first insertion.
usageAdd(usage, agentId) ==
  IF \E i \in 1..Len(usage) : usage[i].agentId = agentId
  THEN [i \in 1..Len(usage) |->
          IF usage[i].agentId = agentId
          THEN [agentId |-> agentId, usageCount |-> usage[i].usageCount + 1]
          ELSE usage[i]]
  ELSE Append(usage, [agentId |-> agentId, usageCount |-> 1])

\* Lines 78-81
RECURSIVE agentUsage(_, _)
agentUsage(usage, recent) ==
  IF recent = <<>>
  THEN usage
  ELSE agentUsage(usageAdd(usage, Head(recent).agentId), Tail(recent))

\* An entry put behind the entries of a sorted array whose key is not
\* greater than its own: Array.prototype.sort is stable.
RECURSIVE insertSorted(_, _)
insertSorted(sorted, e) ==
  IF sorted = <<>>
  THEN <<e>>
  ELSE IF e.key < Head(sorted).key
       THEN <<e>> \o sorted
       ELSE <<Head(sorted)>> \o insertSorted(Tail(sorted), e)

RECURSIVE sortFrom(_, _)
sortFrom(sorted, arr) ==
  IF arr = <<>>
  THEN sorted
  ELSE sortFrom(insertSorted(sorted, Head(arr)), Tail(arr))

\* arr.sort((a, b) => key(a) - key(b))
sortBy(arr, key(_)) ==
  mapSeq(sortFrom(<<>>, mapSeq(arr, LAMBDA x : [key |-> key(x), value |-> x])),
         LAMBDA e : e.value)

\* Lines 82-85 keeping every agent: no slice.
popularAgentsUncut(recent) ==
  sortBy(agentUsage(<<>>, recent), LAMBDA a : 0 - a.usageCount)

\* Lines 82-85 with the sort taking the greater count as equal: the agents
\* stay in the order of the Map.
popularAgentsUnsorted(recent) ==
  sliceFromStart(agentUsage(<<>>, recent), 5)

\* Lines 77-85
popularAgents(recent) ==
  sliceFromStart(sortBy(agentUsage(<<>>, recent), LAMBDA a : 0 - a.usageCount), 5)

\* Line 88
responseTimes(recent) ==
  sortBy(mapSeq(recent, LAMBDA s : s.llmMetadata.latency), LAMBDA time : time)

\* arr[index] || 0, the index counted from 0.
elementOrZero(arr, index) ==
  IF index + 1 \in 1..Len(arr) THEN arr[index + 1] ELSE 0

\* Math.floor(count * percentile) + 1
percentileIndexNext(count, hundredths) == (count * hundredths) \div 100 + 1

\* Math.floor(count * 0.95): the product is a whole number of hundredths.
percentileIndex(count, hundredths) == (count * hundredths) \div 100

\* Line 103
errorRate(errors, requests) ==
  IF requests > 0 THEN Divide(errors * 100, requests) ELSE Divide(0, 1)

\* getGlobalMetrics (lines 62-110)
getGlobalMetrics(metrics, errors, requests, now) ==
  LET recent == recentSessions(metrics, now)
      times == responseTimes(recent)
      average == IF Len(times) > 0 THEN Divide(reduceSum(times), Len(times)) ELSE Divide(0, 1)
  IN [totalUsers |-> TotalUsers,
      activeUsers |-> activeUsers(recent),
      totalTokensUsed |-> reduceSum(mapSeq(recent, LAMBDA s : s.llmMetadata.tokensUsed)),
      totalCost |-> reduceSum(mapSeq(recent, LAMBDA s : s.llmMetadata.cost)),
      averageSessionLength |-> average,
      popularAgents |-> popularAgents(recent),
      errorRate |-> errorRate(errors, requests),
      responseTime |-> [average |-> average,
                        p95 |-> elementOrZero(times, percentileIndex(Len(times), 95)),
                        p99 |-> elementOrZero(times, percentileIndex(Len(times), 99))]]

\* The status of lines 188-195 with the thresholds included.
healthStatusInclusive(rate, average, alerts) ==
  IF rate.num >= 10 * rate.den \/ average.num >= 10000 * average.den
  THEN "critical"
  ELSE IF alerts # <<>> THEN "warning" ELSE "healthy"

\* Lines 188-195
healthStatus(rate, average, alerts) ==
  IF GreaterThan(rate, 10) \/ GreaterThan(average, 10000)
  THEN "critical"
  ELSE IF alerts # <<>> THEN "warning" ELSE "healthy"

\* getSystemHealth (lines 168-204).  An alert is modelled by its kind, not
\* by its text.
getSystemHealth(metrics, errors, requests, now) ==
  LET global == getGlobalMetrics(metrics, errors, requests, now)
      alerts == (IF GreaterThan(global.errorRate, 5)
                 THEN <<"High error rate">> ELSE <<>>)
                  \o (IF GreaterThan(global.responseTime.average, 5000)
                      THEN <<"Slow response time">> ELSE <<>>)
  IN [status |-> healthStatus(global.errorRate, global.responseTime.average, alerts),
      uptime |-> 86400,
      memoryUsage |-> 0,
      errorRate |-> global.errorRate,
      alerts |-> alerts]

\* The olderThanDays that cleanupOldMetrics is called with.
CleanupDays == {1, 2}

\* cleanupOldMetrics (lines 207-210)
CleanupOldMetrics ==
  \E olderThanDays \in CleanupDays :
    /\ sessionMetrics' =
         SelectSeq(sessionMetrics,
                   LAMBDA ref : sessionAt(ref).createdAt >= umNow - olderThanDays * DayMs)
    /\ umRead' = NoMetricsRead
    /\ UNCHANGED <<errorCount, totalRequests, umPending, umRecorded, umNow, umErrorCalls>>
    /\ UNCHANGED outsideMonitor

\* A day passes.  The sessions of the workload are recorded in the day in
\* which they were created: the clock stands while one of them waits.
AdvanceClock ==
  /\ umPending = <<>>
  /\ umNow < StartTime + MaxDays * DayMs
  /\ umNow' = umNow + DayMs
  /\ umRead' = NoMetricsRead
  /\ UNCHANGED <<sessionMetrics, errorCount, totalRequests, umPending, umRecorded,
                 umErrorCalls>>
  /\ UNCHANGED outsideMonitor

\* getGlobalMetrics called by the dashboard.
GetGlobalMetrics ==
  /\ umRead' = [op |-> "getGlobalMetrics", now |-> umNow,
                ret |-> getGlobalMetrics(sessionsOf(sessionMetrics), errorCount,
                                        totalRequests, umNow)]
  /\ UNCHANGED <<sessionMetrics, errorCount, totalRequests, umPending, umRecorded,
                 umNow, umErrorCalls>>
  /\ UNCHANGED outsideMonitor

\* getSystemHealth called by the dashboard.
GetSystemHealth ==
  /\ umRead' = [op |-> "getSystemHealth", now |-> umNow,
                ret |-> getSystemHealth(sessionsOf(sessionMetrics), errorCount,
                                       totalRequests, umNow)]
  /\ UNCHANGED <<sessionMetrics, errorCount, totalRequests, umPending, umRecorded,
                 umNow, umErrorCalls>>
  /\ UNCHANGED outsideMonitor

MonitorNext == RecordSession \/ RecordError

\* The monitor over its lifetime, without the dashboard.
LifetimeNext == RecordSession \/ RecordError \/ AdvanceClock \/ CleanupOldMetrics

MetricsNext ==
  \/ RecordSession
  \/ RecordError
  \/ AdvanceClock
  \/ CleanupOldMetrics
  \/ GetGlobalMetrics
  \/ GetSystemHealth

(***************************************************************************)
(* The auth service (auth-service.ts).  Its methods are async without an   *)
(* await inside: each call runs to its end in one step.  Ids and tokens    *)
(* are numbered in the order in which generateId and generateToken hand    *)
(* them out.                                                               *)
(***************************************************************************)
Emails == {"a@x", "b@x"}

Passwords == {"pw", "other"}

Names == {"Ann"}

Plans == {"free", "pro", "team"}

\* The numbers of tokens that callers report.
TokenAmounts == {0, 1000, 10000}

\* The steps of the clock: a millisecond and a day.
ClockSteps == {1, DayMs}

EmptyMap == [k \in {} |-> 0]

NoAuthCall == [op |-> "none", args |-> <<>>, ret |-> <<>>]

\* { success: false, error }
authFailure(error) ==
  [success |-> FALSE, user |-> Null, token |-> Null, error |-> error]

\* { success: true, user, token }
authSuccess(user, token) ==
  [success |-> TRUE, user |-> Some(user), token |-> Some(token), error |-> Absent]

\* Array.from(this.users.values()).find(u => u.email === email): the ids of
\* the users found.
findByEmail(registered, email) ==
  { id \in DOMAIN registered : registered[id].email = email }

\* The user that find returns: the first in the order of insertion, which is
\* the order of the ids.
firstOf(ids) == CHOOSE id \in ids : \A other \in ids : id <= other

\* The token limit of a plan (lines 100-110); another plan leaves the limit.
limitOfPlan(plan, limit) ==
  CASE plan = "free" -> 1000
    [] plan = "pro" -> 10000
    [] plan = "team" -> 50000
    [] OTHER -> limit

\* checkTokenLimit that leaves the requested tokens out of the sum.
checkTokenLimitOfUsage(registered, userId, requestedTokens) ==
  /\ userId \in DOMAIN registered
  /\ registered[userId].tokensUsed <= registered[userId].tokenLimit

\* checkTokenLimit (lines 124-129)
checkTokenLimit(registered, userId, requestedTokens) ==
  /\ userId \in DOMAIN registered
  /\ registered[userId].tokensUsed + requestedTokens <= registered[userId].tokenLimit

AuthInit ==
  /\ users = EmptyMap
  /\ sessions = EmptyMap
  /\ auNow = 0
  /\ nextUserId = 1
  /\ nextToken = 1
  /\ auLast = NoAuthCall
  /\ auIssued = EmptyMap
  /\ auUnchecked = {}
  /\ auUpdates = 0

\* The session of lines 45-49 and 66-70, and its entry in the history.
issue(userId) ==
  /\ sessions' = MapSet(sessions, nextToken, [userId |-> userId, expiresAt |-> auNow + DayMs])
  /\ auIssued' = MapSet(auIssued, nextToken,
                        [userId |-> userId, issuedAt |-> auNow, loggedOut |-> FALSE])
  /\ nextToken' = nextToken + 1

\* register that does not look for the email among the users.
RegisterAgain ==
  \E email \in Emails, password \in Passwords, name \in Names :
    LET user == [id |-> nextUserId, email |-> email, name |-> name,
                 plan |-> "free", tokenLimit |-> 1000, tokensUsed |-> 0,
                 createdAt |-> auNow, lastLoginAt |-> auNow]
    IN /\ nextToken <= MaxIssued
       /\ users' = MapSet(users, user.id, user)
       /\ nextUserId' = nextUserId + 1
       /\ issue(user.id)
       /\ auLast' = [op |-> "register", args |-> <<email, password, name>>,
                     ret |-> authSuccess(user, nextToken)]
       /\ UNCHANGED <<auNow, auUnchecked, auUpdates>>
       /\ UNCHANGED outsideAuth

\* register (lines 23-52)
Register ==
  \E email \in Emails, password \in Passwords, name \in Names :
    IF findByEmail(users, email) # {}
    THEN /\ auLast' = [op |-> "register", args |-> <<email, password, name>>,
                       ret |-> authFailure("User already exists")]
         /\ UNCHANGED <<users, sessions, auNow, nextUserId, nextToken, auIssued,
                        auUnchecked, auUpdates>>
         /\ UNCHANGED outsideAuth
    ELSE LET user == [id |-> nextUserId, email |-> email, name |-> name,
                      plan |-> "free", tokenLimit |-> 1000, tokensUsed |-> 0,
                      createdAt |-> auNow, lastLoginAt |-> auNow]
         IN /\ nextToken <= MaxIssued
            /\ users' = MapSet(users, user.id, user)
            /\ nextUserId' = nextUserId + 1
            /\ issue(user.id)
            /\ auLast' = [op |-> "register", args |-> <<email, password, name>>,
                          ret |-> authSuccess(user, nextToken)]
            /\ UNCHANGED <<auNow, auUnchecked, auUpdates>>
            /\ UNCHANGED outsideAuth

\* login that compares the password with the one it expects.
LoginChecksPassword ==
  \E email \in Emails, password \in Passwords :
    IF findByEmail(users, email) = {} \/ password # "pw"
    THEN /\ auLast' = [op |-> "login", args |-> <<email, password>>,
                       ret |-> authFailure("Invalid credentials")]
         /\ UNCHANGED <<users, sessions, auNow, nextUserId, nextToken, auIssued,
                        auUnchecked, auUpdates>>
         /\ UNCHANGED outsideAuth
    ELSE LET id == firstOf(findByEmail(users, email))
             user == [users[id] EXCEPT !.lastLoginAt = auNow]
         IN /\ nextToken <= MaxIssued
            /\ users' = MapSet(users, id, user)
            /\ issue(id)
            /\ auLast' = [op |-> "login", args |-> <<email, password>>,
                          ret |-> authSuccess(user, nextToken)]
            /\ UNCHANGED <<auNow, nextUserId, auUnchecked, auUpdates>>
            /\ UNCHANGED outsideAuth

\* login (lines 54-73)
Login ==
  \E email \in Emails, password \in Passwords :
    IF findByEmail(users, email) = {}
    THEN /\ auLast' = [op |-> "login", args |-> <<email, password>>,
                       ret |-> authFailure("Invalid credentials")]
         /\ UNCHANGED <<users, sessions, auNow, nextUserId, nextToken, auIssued,
                        auUnchecked, auUpdates>>
         /\ UNCHANGED outsideAuth
    ELSE LET id == firstOf(findByEmail(users, email))
             user == [users[id] EXCEPT !.lastLoginAt = auNow]
         IN /\ nextToken <= MaxIssued
            /\ users' = MapSet(users, id, user)
            /\ issue(id)
            /\ auLast' = [op |-> "login", args |-> <<email, password>>,
                          ret |-> authSuccess(user, nextToken)]
            /\ UNCHANGED <<auNow, nextUserId, auUnchecked, auUpdates>>
            /\ UNCHANGED outsideAuth

\* validateToken that takes a session as expired at its expiresAt already.
ValidateTokenEarly ==
  \E token \in 1..MaxIssued :
    /\ IF token \notin DOMAIN sessions
       THEN /\ auLast' = [op |-> "validateToken", args |-> <<token>>, ret |-> Null]
            /\ UNCHANGED sessions
       ELSE IF sessions[token].expiresAt <= auNow
            THEN /\ sessions' = MapDelete(sessions, token)
                 /\ auLast' = [op |-> "validateToken", args |-> <<token>>, ret |-> Null]
            ELSE /\ auLast' = [op |-> "validateToken", args |-> <<token>>,
                               ret |-> IF sessions[token].userId \in DOMAIN users
                                       THEN Some(users[sessions[token].userId])
                                       ELSE Null]
                 /\ UNCHANGED sessions
    /\ UNCHANGED <<users, auNow, nextUserId, nextToken, auIssued, auUnchecked, auUpdates>>
    /\ UNCHANGED outsideAuth

\* validateToken (lines 75-86)
ValidateToken ==
  \E token \in 1..MaxIssued :
    /\ IF token \notin DOMAIN sessions
       THEN /\ auLast' = [op |-> "validateToken", args |-> <<token>>, ret |-> Null]
            /\ UNCHANGED sessions
       ELSE IF sessions[token].expiresAt < auNow
            THEN /\ sessions' = MapDelete(sessions, token)
                 /\ auLast' = [op |-> "validateToken", args |-> <<token>>, ret |-> Null]
            ELSE /\ auLast' = [op |-> "validateToken", args |-> <<token>>,
                               ret |-> IF sessions[token].userId \in DOMAIN users
                                       THEN Some(users[sessions[token].userId])
                                       ELSE Null]
                 /\ UNCHANGED sessions
    /\ UNCHANGED <<users, auNow, nextUserId, nextToken, auIssued, auUnchecked, auUpdates>>
    /\ UNCHANGED outsideAuth

\* logout (lines 88-90)
Logout ==
  \E token \in 1..MaxIssued :
    /\ sessions' = MapDelete(sessions, token)
    /\ auLast' = [op |-> "logout", args |-> <<token>>, ret |-> token \in DOMAIN sessions]
    /\ auIssued' = IF token \in DOMAIN auIssued
                   THEN [auIssued EXCEPT ![token].loggedOut = TRUE]
                   ELSE auIssued
    /\ UNCHANGED <<users, auNow, nextUserId, nextToken, auUnchecked, auUpdates>>
    /\ UNCHANGED outsideAuth

\* updateUserPlan (lines 92-113)
UpdateUserPlan ==
  \E userId \in 1..Cardinality(Emails), plan \in Plans :
    /\ IF userId \notin DOMAIN users
       THEN /\ auLast' = [op |-> "updateUserPlan", args |-> <<userId, plan>>, ret |-> FALSE]
            /\ UNCHANGED users
       ELSE /\ users' = [users EXCEPT ![userId].plan = plan,
                                      ![userId].tokenLimit = limitOfPlan(plan, @)]
            /\ auLast' = [op |-> "updateUserPlan", args |-> <<userId, plan>>, ret |-> TRUE]
    /\ UNCHANGED <<sessions, auNow, nextUserId, nextToken, auIssued, auUnchecked, auUpdates>>
    /\ UNCHANGED outsideAuth

\* updateTokenUsage (lines 115-122).  The users whose usage is raised by an
\* amount for which checkTokenLimit does not return true in this state are
\* remembered.
UpdateTokenUsage ==
  \E userId \in 1..Cardinality(Emails), tokensUsed \in TokenAmounts :
    /\ auUpdates < MaxUpdates
    /\ auUpdates' = auUpdates + 1
    /\ IF userId \notin DOMAIN users
       THEN /\ auLast' = [op |-> "updateTokenUsage", args |-> <<userId, tokensUsed>>,
                          ret |-> FALSE]
            /\ UNCHANGED <<users, auUnchecked>>
       ELSE /\ users' = [users EXCEPT ![userId].tokensUsed = @ + tokensUsed]
            /\ auUnchecked' = IF checkTokenLimit(users, userId, tokensUsed)
                              THEN auUnchecked
                              ELSE auUnchecked \cup {userId}
            /\ auLast' = [op |-> "updateTokenUsage", args |-> <<userId, tokensUsed>>,
                          ret |-> TRUE]
    /\ UNCHANGED <<sessions, auNow, nextUserId, nextToken, auIssued>>
    /\ UNCHANGED outsideAuth

\* checkTokenLimit called by the billing collaborator.
CheckTokenLimit ==
  \E userId \in 1..Cardinality(Emails), requestedTokens \in TokenAmounts :
    /\ auLast' = [op |-> "checkTokenLimit", args |-> <<userId, requestedTokens>>,
                  ret |-> checkTokenLimit(users, userId, requestedTokens)]
    /\ UNCHANGED <<users, sessions, auNow, nextUserId, nextToken, auIssued,
                   auUnchecked, auUpdates>>
    /\ UNCHANGED outsideAuth

\* cleanupExpiredSessions (lines 135-143)
CleanupExpiredSessions ==
  /\ sessions' = [token \in { t \in DOMAIN sessions : ~(sessions[t].expiresAt < auNow) }
                    |-> sessions[token]]
  /\ auLast' = [op |-> "cleanupExpiredSessions", args |-> <<>>, ret |-> <<>>]
  /\ UNCHANGED <<users, auNow, nextUserId, nextToken, auIssued, auUnchecked, auUpdates>>
  /\ UNCHANGED outsideAuth

\* Time passes: a millisecond, MaxMs times in a day, or a day, MaxDays times.
AuthTick ==
  \E step \in ClockSteps :
    /\ step = 1 => auNow % DayMs < MaxMs
    /\ step = DayMs => auNow \div DayMs < MaxDays
    /\ auNow' = auNow + step
    /\ auLast' = NoAuthCall
    /\ UNCHANGED <<users, sessions, nextUserId, nextToken, auIssued, auUnchecked, auUpdates>>
    /\ UNCHANGED outsideAuth

\* The sessions of the users: register, login, the tokens and the clock.
AuthNext ==
  \/ Register
  \/ Login
  \/ ValidateToken
  \/ Logout
  \/ CleanupExpiredSessions
  \/ AuthTick

\* The quota of the users: register, the plans and the token usage.
QuotaNext ==
  \/ Register
  \/ UpdateUserPlan
  \/ UpdateTokenUsage
  \/ CheckTokenLimit

(***************************************************************************)
(* The specifications.  Each component is explored on its own, the others  *)
(* standing still in their initial state.                                  *)
(***************************************************************************)
\* Every component in its initial state, the service without agents.
Init == StoreInit /\ DiffIdle /\ GatewayInit /\ OrchAbsent /\ MonitorIdle /\ AuthInit

\* The inputs of computeSimpleDiff drawn, the rest in its initial state.
DiffSpecInit ==
  StoreInit /\ DiffInit /\ GatewayInit /\ OrchAbsent /\ MonitorIdle /\ AuthInit

\* The service constructed with one of its registries.
OrchSpecInit ==
  StoreInit /\ DiffIdle /\ GatewayInit /\ OrchInit /\ MonitorIdle /\ AuthInit

DiffSpec == DiffSpecInit /\ [][DiffNext]_vars

GetDiffSpec == Init /\ [][GetDiffNext]_vars

StoreSpec == Init /\ [][StoreNext]_vars

GatewaySpec == Init /\ [][GatewayNext]_vars

OrchSpec == OrchSpecInit /\ [][OrchNext]_vars

\* The directory drawn, the rest in its initial state.
LoaderSpecInit ==
  /\ StoreInit /\ DiffIdle /\ GatewayInit
  /\ files = {} /\ OrchIdle
  /\ LoaderInit
  /\ MonitorIdle
  /\ AuthInit

LoaderSpec == LoaderSpecInit /\ [][LoaderNext]_vars

\* The monitor constructed and its workload drawn, the rest in its initial
\* state.
MonitorSpecInit ==
  StoreInit /\ DiffIdle /\ GatewayInit /\ OrchAbsent /\ MonitorInit /\ AuthInit

MonitorSpec == MonitorSpecInit /\ [][MonitorNext]_vars

LifetimeSpec == MonitorSpecInit /\ [][LifetimeNext]_vars

\* The monitor constructed and one of the short workloads drawn.
MetricsSpecInit ==
  StoreInit /\ DiffIdle /\ GatewayInit /\ OrchAbsent /\ MetricsInit /\ AuthInit

MetricsSpec == MetricsSpecInit /\ [][MetricsNext]_vars

AuthSpec == Init /\ [][AuthNext]_vars

QuotaSpec == Init /\ [][QuotaNext]_vars

Next == StoreNext

Spec == Init /\ [][Next]_vars

(***************************************************************************)
(* Properties of the version store.  `last` describes the step that led to *)
(* the state: in an action formula last' names the call the step performs, *)
(* and the unprimed variables are the store the call found.  A step of     *)
(* revertToVersion that shortens `pending` is the resumption after the     *)
(* await; one that does not is the lookup.                                 *)
(***************************************************************************)
History(id) == versionsOf(versions, id)

HasVersion(vs, id, v) ==
  \E i \in 1..Len(versionsOf(vs, id)) : versionsOf(vs, id)[i].version = v

IsPrefix(s, t) == Len(s) <= Len(t) /\ SubSeq(t, 1, Len(s)) = s

RevertLookupStep == last'.op = "revertToVersion" /\ Len(pending') >= Len(pending)

RevertResumeStep == last'.op = "revertToVersion" /\ Len(pending') < Len(pending)

\* C1: for every stored document, version equals the number of its version
\* records, and the i-th record returned by getVersions carries version
\* number i (so the numbers are 1..version, each once, ascending).
VersionEqualsHistoryLength ==
  \A id \in DOMAIN storyFiles :
    /\ storyFiles[id].version = Len(getVersions(id))
    /\ \A i \in 1..Len(getVersions(id)) : getVersions(id)[i].version = i

VersionEqualsHistoryLengthWitness ==
  \E id \in DOMAIN storyFiles :
    /\ storyFiles[id].version = 3
    /\ Len(getVersions(id)) = 3
    /\ updates[id] = 2
    /\ last.op = "revertToVersion" /\ last.outcome = "returned" /\ last.id = id

\* C2 as stated: after N content-changing updates the version is N and
\* getVersions returns N entries.
VersionEqualsUpdateCount ==
  \A id \in DOMAIN storyFiles :
    /\ storyFiles[id].version = updates[id]
    /\ Len(getVersions(id)) = updates[id]

\* C2 amended: after N content-changing updates (direct or made by a revert)
\* the version is N + 1 and getVersions returns N + 1 entries, numbered in
\* creation order; the creation itself wrote version 1.
VersionEqualsUpdateCountPlusOne ==
  \A id \in DOMAIN storyFiles :
    /\ storyFiles[id].version = updates[id] + 1
    /\ Len(getVersions(id)) = updates[id] + 1
    /\ \A i, j \in 1..Len(getVersions(id)) :
         i < j => getVersions(id)[i].version < getVersions(id)[j].version

VersionEqualsUpdateCountPlusOneWitness ==
  \E id \in DOMAIN storyFiles :
    /\ updates[id] = 2
    /\ Len(getVersions(id)) = 3
    /\ last.op = "updateStoryFile" /\ last.id = id /\ last.ret = Some(storyFiles[id])

\* C3: updateStoryFile with the content the document already has changes
\* neither the document (version, metadata, whatever patch is passed) nor
\* any history, and returns the document, whose content is the input.
IdenticalContentIsNoOp ==
  [][ ( /\ last'.op = "updateStoryFile"
        /\ last'.id \in DOMAIN storyFiles
        /\ storyFiles[last'.id].content = last'.content )
      => ( /\ storyFiles' = storyFiles
           /\ versions' = versions
           /\ last'.outcome = "returned"
           /\ last'.ret = Some(storyFiles[last'.id])
           /\ last'.ret[1].content = last'.content ) ]_vars

IdenticalContentIsNoOpWitness ==
  /\ last.op = "updateStoryFile"
  /\ last.outcome = "returned"
  /\ last.patch = [genre |-> "x"]
  /\ last.id \in DOMAIN storyFiles
  /\ storyFiles[last.id].content = last.content
  /\ "genre" \notin DOMAIN storyFiles[last.id].metadata
  /\ Len(History(last.id)) = 2

\* C4: no history holds two consecutive records with the same content.
NoConsecutiveIdenticalContent ==
  \A id \in DOMAIN versions :
    \A i \in 1..(Len(versions[id]) - 1) :
      versions[id][i].content # versions[id][i + 1].content

NoConsecutiveIdenticalContentWitness ==
  \E id \in DOMAIN versions :
    /\ Len(versions[id]) = 3
    /\ "revertedFrom" \in DOMAIN versions[id][3].metadata
    /\ "revertedFrom" \notin DOMAIN versions[id][2].metadata
    /\ versions[id][3].content = versions[id][1].content

\* C5: a step leaves every existing version record as it is and in its
\* place; a history disappears only in the deleteStoryFile of its document.
VersionRecordsImmutable ==
  [][ \A id \in DOMAIN versions :
        IF id \in DOMAIN versions'
        THEN IsPrefix(versions[id], versions'[id])
        ELSE /\ last'.op = "deleteStoryFile"
             /\ last'.id = id
             /\ id \notin DOMAIN storyFiles' ]_vars

VersionRecordsImmutableWitness ==
  /\ last.op = "updateStoryFile"
  /\ last.outcome = "returned"
  /\ last.id \in DOMAIN versions
  /\ Len(versions[last.id]) = 3
  /\ versions[last.id][1].metadata # versions[last.id][3].metadata
  /\ versions[last.id][1].createdBy # versions[last.id][3].createdBy
  /\ versions[last.id][2].commitMessage # versions[last.id][3].commitMessage

\* C6: a revert that returns, returns the document with the content stored
\* in the record of the target version.
RevertRestoresContent ==
  ( last.op = "revertToVersion" /\ last.outcome = "returned" )
  => ( /\ last.id \in DOMAIN storyFiles
       /\ last.ret = Some(storyFiles[last.id])
       /\ last.target \in 1..Len(History(last.id))
       /\ History(last.id)[last.target].version = last.target
       /\ last.ret[1].content = History(last.id)[last.target].content )

RevertRestoresContentWitness ==
  /\ last.op = "revertToVersion"
  /\ last.outcome = "returned"
  /\ last.target = 1
  /\ last.ret # Null
  /\ last.ret[1].version = 3
  /\ History(last.id)[2].content # last.ret[1].content
  /\ "revertedFrom" \notin DOMAIN History(last.id)[3].metadata

\* C7: a revert to an existing version, run on an existing document, appends
\* exactly one record and adds one to the version when the target content
\* differs from the current content, and changes nothing when it is equal.
RevertNeverRewinds ==
  [][ ( /\ RevertResumeStep
        /\ last'.id \in DOMAIN storyFiles
        /\ HasVersion(versions, last'.id, last'.target) )
      => LET id == last'.id
             targetContent == versions[id][last'.target].content
         IN IF targetContent # storyFiles[id].content
            THEN /\ id \in DOMAIN storyFiles'
                 /\ storyFiles'[id].version = storyFiles[id].version + 1
                 /\ Len(versions'[id]) = Len(versions[id]) + 1
                 /\ IsPrefix(versions[id], versions'[id])
            ELSE /\ storyFiles' = storyFiles
                 /\ versions' = versions ]_vars

RevertNeverRewindsWitness ==
  /\ last.op = "revertToVersion"
  /\ last.outcome = "returned"
  /\ last.target = 1
  /\ last.ret # Null
  /\ last.ret[1].version = 3
  /\ Len(History(last.id)) = 3
  /\ History(last.id)[3].content = History(last.id)[1].content
  /\ "revertedFrom" \in DOMAIN History(last.id)[3].metadata

\* C8: revertToVersion with a target version the document does not have
\* fails with version-not-found and leaves documents and histories as they
\* were (and no call is left suspended).
RevertToMissingVersionFails ==
  [][ ( /\ RevertLookupStep
        /\ ~ HasVersion(versions, last'.id, last'.target) )
      => ( /\ last'.outcome = "VersionNotFound"
           /\ last'.ret = Null
           /\ storyFiles' = storyFiles
           /\ versions' = versions
           /\ pending' = pending ) ]_vars

RevertToMissingVersionFailsWitness ==
  /\ last.op = "revertToVersion"
  /\ last.outcome = "VersionNotFound"
  /\ last.id \in DOMAIN storyFiles
  /\ storyFiles[last.id].version = 2
  /\ last.target = 3

\* C9: a content-changing updateStoryFile adds one to the version, merges
\* the patch into the metadata (patch keys win, the other keys stay) and
\* appends one record with the new version number, content and metadata.
ContentChangingUpdate ==
  [][ ( /\ last'.op = "updateStoryFile"
        /\ last'.id \in DOMAIN storyFiles
        /\ storyFiles[last'.id].content # last'.content )
      => LET id == last'.id
             old == storyFiles[id]
             new == storyFiles'[id]
             rec == versions'[id][Len(versions'[id])]
         IN /\ id \in DOMAIN storyFiles'
            /\ new.version = old.version + 1
            /\ new.content = last'.content
            /\ DOMAIN new.metadata = (DOMAIN old.metadata) \cup (DOMAIN last'.patch)
            /\ \A k \in DOMAIN last'.patch : new.metadata[k] = last'.patch[k]
            /\ \A k \in (DOMAIN old.metadata) \ (DOMAIN last'.patch) :
                 new.metadata[k] = old.metadata[k]
            /\ Len(versions'[id]) = Len(versions[id]) + 1
            /\ IsPrefix(versions[id], versions'[id])
            /\ rec.version = new.version
            /\ rec.content = new.content
            /\ rec.metadata = new.metadata
            /\ last'.ret = Some(new)
            /\ \A other \in (DOMAIN storyFiles) \ {id} :
                 /\ other \in DOMAIN storyFiles'
                 /\ storyFiles'[other] = storyFiles[other]
                 /\ versions'[other] = versions[other] ]_vars

ContentChangingUpdateWitness ==
  /\ last.op = "updateStoryFile"
  /\ last.outcome = "returned"
  /\ last.patch = [genre |-> "x"]
  /\ last.ret # Null
  /\ last.ret[1].version = 2
  /\ last.ret[1].metadata = [genre |-> "x", mood |-> "m"]
  /\ History(last.id)[1].metadata = [genre |-> "y", mood |-> "m"]
  /\ History(last.id)[2].metadata = last.ret[1].metadata

\* C10: the resumed revert does to the store what updateStoryFile does with
\* the target version's content and the patch {revertedFrom: target}: on a
\* missing document it fails, on equal content it changes nothing, and
\* otherwise the new document and the new record hold the target content,
\* the next version number, and metadata with revertedFrom = target and all
\* other keys as before, with the commit message and author of the call.
RevertIsTaggedUpdate ==
  [][ RevertResumeStep
      => LET call == Head(pending)
             id == call.id
         IN /\ last'.id = id /\ last'.target = call.target
            /\ IF id \notin DOMAIN storyFiles
               THEN /\ last'.outcome = "StoryFileNotFound"
                    /\ storyFiles' = storyFiles
                    /\ versions' = versions
               ELSE LET old == storyFiles[id]
                        targetContent == versions[id][call.target].content
                    IN IF targetContent = old.content
                       THEN /\ storyFiles' = storyFiles
                            /\ versions' = versions
                            /\ last'.ret = Some(old)
                       ELSE LET new == storyFiles'[id]
                                rec == versions'[id][Len(versions'[id])]
                            IN /\ new.content = targetContent
                               /\ new.version = old.version + 1
                               /\ DOMAIN new.metadata =
                                    (DOMAIN old.metadata) \cup {"revertedFrom"}
                               /\ new.metadata["revertedFrom"] = call.target
                               /\ \A k \in (DOMAIN old.metadata) \ {"revertedFrom"} :
                                    new.metadata[k] = old.metadata[k]
                               /\ versions'[id] = Append(versions[id], rec)
                               /\ rec = [version |-> new.version,
                                         content |-> targetContent,
                                         metadata |-> new.metadata,
                                         createdBy |-> call.by,
                                         commitMessage |-> call.msg]
                               /\ last'.ret = Some(new) ]_vars

RevertIsTaggedUpdateWitness ==
  /\ last.op = "revertToVersion"
  /\ last.outcome = "returned"
  /\ last.target = 1
  /\ last.ret # Null
  /\ last.ret[1].metadata = [genre |-> "y", mood |-> "m", revertedFrom |-> 1]
  /\ Len(History(last.id)) = 3
  /\ History(last.id)[2].metadata = [genre |-> "y", mood |-> "m"]
  /\ History(last.id)[3].metadata = last.ret[1].metadata
  /\ History(last.id)[3].commitMessage = RevertMessage(1)

(***************************************************************************)
(* Properties of the diff.  The lines of a string are read off the         *)
(* positions of its newline characters, independently of split.            *)
(***************************************************************************)
NewlinesUpTo(str, i) == Cardinality({ j \in 1..i : str[j] = NL })

LineCount(str) == NewlinesUpTo(str, Len(str)) + 1

\* The k-th line of str, k in 1..LineCount(str).
LineAt(str, k) ==
  LET first == IF k = 1 THEN 1
               ELSE 1 + CHOOSE i \in 1..Len(str) :
                          str[i] = NL /\ NewlinesUpTo(str, i) = k - 1
      lastChar == IF k = LineCount(str) THEN Len(str)
                  ELSE (CHOOSE i \in 1..Len(str) :
                          str[i] = NL /\ NewlinesUpTo(str, i) = k) - 1
  IN SubSeq(str, first, lastChar)

Line1Line2 == Line1 \o <<NL>> \o Line2

Line1Line2Line3 == Line1 \o <<NL>> \o Line2 \o <<NL>> \o Line3

\* C11: the diff counts, position by position over 1..max(lenOld, lenNew),
\* an addition for a line only the new content has, a deletion for a line
\* only the old content has, and one addition and one deletion (one 'modify'
\* change) for a line that differs; the changes are listed by line number.
\* Equal contents give 0, 0 and no change; "line1\nline2" against
\* "line1\nline2\nline3" gives one 'add' change at line 3 with "line3".
PositionalDiff ==
  diffOut # Null =>
    LET diff == diffOut[1]
        lenOld == LineCount(diffOld)
        lenNew == LineCount(diffNew)
        added == { k \in 1..lenNew : k > lenOld }
        deleted == { k \in 1..lenOld : k > lenNew }
        modified == { k \in 1..lenOld :
                        k <= lenNew /\ LineAt(diffOld, k) # LineAt(diffNew, k) }
    IN /\ diff.additions = Cardinality(added) + Cardinality(modified)
       /\ diff.deletions = Cardinality(deleted) + Cardinality(modified)
       /\ Len(diff.changes) = Cardinality(added \cup deleted \cup modified)
       /\ \A n \in 1..Len(diff.changes) :
            LET change == diff.changes[n]
                k == change.lineNumber
            IN /\ k \in added \cup deleted \cup modified
               /\ n > 1 => diff.changes[n - 1].lineNumber < k
               /\ k \in added =>
                    change.type = "add" /\ change.content = LineAt(diffNew, k)
               /\ k \in deleted =>
                    change.type = "delete" /\ change.content = LineAt(diffOld, k)
               /\ k \in modified =>
                    change.type = "modify" /\ change.content = LineAt(diffNew, k)
       /\ diffOld = diffNew =>
            diff = [additions |-> 0, deletions |-> 0, changes |-> <<>>]
       /\ (diffOld = Line1Line2 /\ diffNew = Line1Line2Line3) =>
            diff = [additions |-> 1, deletions |-> 0,
                    changes |-> << [type |-> "add", lineNumber |-> 3,
                                    content |-> Line3] >>]

PositionalDiffWitness ==
  /\ diffOut # Null
  /\ diffOld = Line1 \o <<NL>> \o Line2 \o <<NL>> \o Line3
  /\ diffNew = Line1 \o <<NL>> \o Line3
  /\ diffOut[1].additions = 1
  /\ diffOut[1].deletions = 2
  /\ Len(diffOut[1].changes) = 2
  /\ diffOut[1].changes[1].type = "modify"
  /\ diffOut[1].changes[2].type = "delete"

GetDiffFromStep == last'.op = "getDiff" /\ diffCall = Null

GetDiffToStep == last'.op = "getDiff" /\ diffCall # Null

\* C12: getDiff changes neither documents nor histories; it fails with
\* version-not-found exactly when the from-version or the to-version is
\* missing at the moment getDiff looks it up, and otherwise returns the
\* diff of the two records' contents.
GetDiffFailsOnMissingVersion ==
  [][ /\ last'.op = "getDiff" =>
           /\ storyFiles' = storyFiles
           /\ versions' = versions
           /\ pending' = pending
      /\ GetDiffFromStep =>
           /\ diffCall' # Null
           /\ (diffCall'[1].fromVersionData = Null)
                <=> ~ HasVersion(versions, last'.id, last'.target)
           /\ diffCall'[1].fromVersionData # Null =>
                diffCall'[1].fromVersionData[1].version = last'.target
      /\ GetDiffToStep =>
           LET call == diffCall[1]
               missing == \/ call.fromVersionData = Null
                          \/ ~ HasVersion(versions, call.id, call.to)
           IN /\ last'.id = call.id /\ last'.target = call.from /\ last'.to = call.to
              /\ missing => last'.outcome = "VersionNotFound" /\ last'.ret = Null
              /\ ~ missing =>
                   /\ last'.outcome = "returned"
                   /\ last'.ret =
                        Some(computeSimpleDiff(call.fromVersionData[1].content,
                                               versions[call.id][call.to].content)) ]_vars

GetDiffFailsOnMissingVersionWitness ==
  /\ last.op = "getDiff"
  /\ last.outcome = "VersionNotFound"
  /\ last.id \in DOMAIN storyFiles
  /\ storyFiles[last.id].version = 2
  /\ last.target = 1
  /\ last.to = 3
  /\ diffCall = Null

\* C13: deleteStoryFile returns true exactly when the document exists, and
\* then the document and its whole history are gone and nothing else has
\* changed; otherwise it returns false and changes nothing.  A later
\* updateStoryFile or revertToVersion on a deleted id fails with not-found
\* and changes nothing.  Documents and histories have the same ids in every
\* state.
DeleteRemovesDocumentAndHistory ==
  /\ [](DOMAIN storyFiles = DOMAIN versions)
  /\ [][ /\ last'.op = "deleteStoryFile" =>
              LET id == last'.id
              IN IF id \in DOMAIN storyFiles
                 THEN /\ last'.outcome = "true"
                      /\ DOMAIN storyFiles' = (DOMAIN storyFiles) \ {id}
                      /\ DOMAIN versions' = (DOMAIN versions) \ {id}
                      /\ versionsOf(versions', id) = <<>>
                      /\ \A other \in (DOMAIN storyFiles) \ {id} :
                           /\ storyFiles'[other] = storyFiles[other]
                           /\ versions'[other] = versions[other]
                 ELSE /\ last'.outcome = "false"
                      /\ storyFiles' = storyFiles
                      /\ versions' = versions
         /\ ( /\ last'.op \in {"updateStoryFile", "revertToVersion"}
              /\ last'.id < nextId
              /\ last'.id \notin DOMAIN storyFiles )
            => /\ last'.outcome \in {"StoryFileNotFound", "VersionNotFound"}
               /\ last'.ret = Null
               /\ storyFiles' = storyFiles
               /\ versions' = versions ]_vars

DeleteRemovesDocumentAndHistoryWitness ==
  /\ last.op = "updateStoryFile"
  /\ last.outcome = "StoryFileNotFound"
  /\ last.id < nextId
  /\ last.id \notin DOMAIN storyFiles
  /\ last.id \notin DOMAIN versions

\* C14: with calls running between the lookup of a revert and its
\* resumption, every state keeps version = history length, the version
\* numbers 1..N in order and no two consecutive records of equal content;
\* the record a suspended revert has read is still the record the store
\* holds while the document exists, and a returning call returns the
\* document as the store now holds it.
InterleavedCallsKeepInvariants ==
  /\ \A id \in DOMAIN storyFiles :
       /\ id \in DOMAIN versions
       /\ Len(versions[id]) = storyFiles[id].version
       /\ \A i \in 1..Len(versions[id]) :
            /\ versions[id][i].version = i
            /\ i > 1 => versions[id][i].content # versions[id][i - 1].content
       /\ versions[id][Len(versions[id])].content = storyFiles[id].content
  /\ \A n \in 1..Len(pending) :
       pending[n].id \in DOMAIN storyFiles =>
         /\ pending[n].target \in 1..Len(versions[pending[n].id])
         /\ versions[pending[n].id][pending[n].target].content = pending[n].content
  /\ ( last.op \in {"createStoryFile", "updateStoryFile", "revertToVersion"}
       /\ last.outcome = "returned" )
     => /\ last.id \in DOMAIN storyFiles
        /\ last.ret = Some(storyFiles[last.id])

InterleavedCallsKeepInvariantsWitness ==
  /\ pending # <<>>
  /\ last.op = "updateStoryFile"
  /\ last.outcome = "returned"
  /\ last.id = pending[1].id
  /\ pending[1].target = 2
  /\ storyFiles[last.id].version = 3
  /\ storyFiles[last.id].content # pending[1].content

(***************************************************************************)
(* Properties of the provider gateway.  They are stated on the log of      *)
(* attempts and on the options of the call, with the order of the          *)
(* attempts written out case by case.                                      *)
(***************************************************************************)
AttemptOrder(preferredProvider) ==
  CASE preferredProvider = "OpenAI" -> <<"OpenAI", "Gemini", "Anthropic">>
    [] preferredProvider = "Anthropic" -> <<"Anthropic", "Gemini", "OpenAI">>
    [] OTHER -> <<"Gemini", "OpenAI", "Anthropic">>

AttemptsOf(provider) ==
  { i \in 1..Len(gwAttempts) : gwAttempts[i].provider = provider }

\* C15: a call of generateText that returns, returns the response built from
\* the reply of the first provider in the attempt order that succeeded: the
\* providers before it were each attempted once and failed, none after it
\* was attempted; and the call throws only when no provider succeeded.
FirstSuccessIsReturned ==
  /\ gwState = "returned" =>
       LET n == Len(gwAttempts)
           order == AttemptOrder(gwOptions.preferredProvider)
       IN /\ n \in 1..3
          /\ \A i \in 1..n : gwAttempts[i].provider = order[i]
          /\ \A i \in 1..(n - 1) : gwAttempts[i].outcome = "failed"
          /\ gwAttempts[n].outcome = "succeeded"
          /\ gwError = Absent
          /\ Len(gwResult) = 1
          /\ gwResult[1].metadata.provider = order[n]
          /\ gwResult[1].text = gwAttempts[n].reply[1].text
          /\ gwResult[1].tokensUsed = gwAttempts[n].reply[1].tokens
  /\ gwState = "thrown" =>
       /\ gwResult = Null
       /\ \A p \in {"Gemini", "OpenAI", "Anthropic"} : AttemptsOf(p) # {}
       /\ \A i \in 1..Len(gwAttempts) : gwAttempts[i].outcome = "failed"

\* The preferred provider failed once and the first fallback served the call.
FirstSuccessIsReturnedWitness ==
  /\ gwState = "returned"
  /\ gwOptions.preferredProvider = "OpenAI"
  /\ Len(gwAttempts) = 2
  /\ gwAttempts[1].provider = "OpenAI" /\ gwAttempts[1].outcome = "failed"
  /\ gwAttempts[2].provider = "Gemini" /\ gwAttempts[2].outcome = "succeeded"
  /\ gwResult[1].metadata.provider = "Gemini"

\* C16: once each of the three providers has failed, the call has thrown
\* 'All LLM providers failed' and every provider was attempted exactly once,
\* with or without a preferred provider.
AllProvidersFailedOnce ==
  (\A p \in {"Gemini", "OpenAI", "Anthropic"} :
     \E i \in AttemptsOf(p) : gwAttempts[i].outcome = "failed")
  => /\ gwState = "thrown"
     /\ gwError = "All LLM providers failed"
     /\ \A p \in {"Gemini", "OpenAI", "Anthropic"} : Cardinality(AttemptsOf(p)) = 1

\* All three failed in a call that named a preferred provider.
AllProvidersFailedOnceWitness ==
  /\ gwState = "thrown"
  /\ gwOptions.preferredProvider = "Anthropic"
  /\ Len(gwAttempts) = 3
  /\ \A i \in 1..3 : gwAttempts[i].outcome = "failed"

\* C17: at every moment the attempts made so far are the beginning of the
\* attempt order (a registered preferred provider first, then Gemini, OpenAI,
\* Anthropic without it), every attempt but the latest has failed, and a
\* preferred name that is not registered has never been attempted.
AttemptsFollowTheOrder ==
  LET n == Len(gwAttempts)
      order == AttemptOrder(gwOptions.preferredProvider)
  IN /\ n <= 3
     /\ \A i \in 1..n : gwAttempts[i].provider = order[i]
     /\ \A i \in 1..(n - 1) : gwAttempts[i].outcome = "failed"
     /\ gwOptions.preferredProvider \notin {"Gemini", "OpenAI", "Anthropic"}
          => AttemptsOf(gwOptions.preferredProvider) = {}

\* An unregistered preferred name was passed over; Gemini failed and the
\* call to OpenAI is in flight.
AttemptsFollowTheOrderWitness ==
  /\ gwOptions.preferredProvider = "Mistral"
  /\ gwState = "awaiting"
  /\ Len(gwAttempts) = 2
  /\ gwAttempts[1].provider = "Gemini" /\ gwAttempts[1].outcome = "failed"
  /\ gwAttempts[2].provider = "OpenAI" /\ gwAttempts[2].outcome = "pending"

\* C18: the model of a returned response is options.model when that is
\* given, and otherwise the model the serving provider maps from
\* costPriority (balanced when absent).
ModelOptionOverrides ==
  gwState = "returned" =>
    gwResult[1].metadata.model =
      IF gwOptions.model # Absent
      THEN gwOptions.model
      ELSE mapCostPriorityToModel(gwResult[1].metadata.provider,
                                  IF gwOptions.costPriority = Absent
                                  THEN "balanced" ELSE gwOptions.costPriority)

\* What the code does with the model: options.model is never read.
ModelFollowsCostPriority ==
  gwState = "returned" =>
    gwResult[1].metadata.model =
      mapCostPriorityToModel(gwResult[1].metadata.provider,
                             IF gwOptions.costPriority = Absent
                             THEN "balanced" ELSE gwOptions.costPriority)

(***************************************************************************)
(* Properties of the orchestration service.                                *)
(***************************************************************************)
\* The registry has an agent under this id.
RegisteredIn(registry, agentId) ==
  \E i \in 1..Len(registry) :
    registry[i].key.kind = "string" /\ registry[i].key.str = <<agentId>>

Registered(agentId) == RegisteredIn(agents, agentId)

\* C19: a call of executeAgentAction whose agent id is not in the registry
\* has failed with 'Agent <id> not found' as soon as it has started: no
\* dependency was checked, the gateway was not called and its state was left
\* as it was, and there is no session.
UnknownAgentFailsFirst ==
  /\ [](exState # "idle" /\ ~Registered(exCall.agentId)
          => /\ exState = "thrown"
             /\ exError = <<"Agent ", exCall.agentId, " not found">>
             /\ exDepChecks = <<>>
             /\ exGatewayCalls = 0
             /\ exSession = <<>>)
  /\ [][exState' # "idle" /\ ~RegisteredIn(agents', exCall'.agentId)
          => gwState' \in {"idle", "returned", "thrown"} /\ gwAttempts' = gwAttempts]_vars

\* The call named an agent that is not registered while another one is.
UnknownAgentFailsFirstWitness ==
  /\ exState = "thrown"
  /\ exCall.agentId = "ghost"
  /\ Registered("writer")
  /\ exError = <<"Agent ", "ghost", " not found">>

\* C20: when every provider has failed the call fails with the gateway's
\* 'All LLM providers failed' error and has no session, and a call fails
\* after reaching the gateway in no other way; a call that returns called the
\* gateway once, the gateway returned, and the call holds one session whose
\* response, provider, model, tokens, cost and latency are those of the
\* gateway's result.
GatewayOutcomeIsCallOutcome ==
  /\ [](exState = "thrown" /\ exGatewayCalls > 0
          => /\ exError = <<"All LLM providers failed">>
             /\ exSession = <<>>
             /\ exGatewayCalls = 1)
  /\ [](exState = "returned"
          => /\ exGatewayCalls = 1
             /\ Len(exSession) = 1
             /\ exSession[1].agentId = exCall.agentId)
  /\ [][exState = "llm" /\ gwState = "thrown" /\ exState' # "llm"
          => /\ exState' = "thrown"
             /\ exError' = <<"All LLM providers failed">>
             /\ exSession' = <<>>]_vars
  /\ [][exState = "llm" /\ exState' = "thrown"
          => /\ Len(gwAttempts) = 3
             /\ \A i \in 1..3 : gwAttempts[i].outcome = "failed"]_vars
  /\ [][exState = "llm" /\ exState' = "returned"
          => /\ gwState = "returned"
             /\ exSession'[1].outputs.response = gwResult[1].text
             /\ exSession'[1].llmMetadata.provider = gwResult[1].metadata.provider
             /\ exSession'[1].llmMetadata.model = gwResult[1].metadata.model
             /\ exSession'[1].llmMetadata.tokensUsed = gwResult[1].tokensUsed
             /\ exSession'[1].llmMetadata.cost = gwResult[1].cost
             /\ exSession'[1].llmMetadata.latency = gwResult[1].metadata.latency]_vars

\* The first provider failed and the second served the call, which returned
\* the first session.
GatewayOutcomeIsCallOutcomeWitness ==
  /\ exState = "returned"
  /\ exSession[1].llmMetadata.provider = "OpenAI"
  /\ exSession[1].llmMetadata.model = "gpt-4"
  /\ exSession[1].outputs.response = "Twice"
  /\ exSession[1].id = 1

\* A call failed at the gateway: all three providers failed and the error
\* reached the caller.
AllProvidersFailedSurfaces ==
  /\ exState = "thrown"
  /\ exCall.agentId = "writer"
  /\ exError = <<"All LLM providers failed">>

\* A step that starts a call of executeAgentAction.
ExecStartStep ==
  /\ ldState = "loaded"
  /\ exState \notin {"dependencies", "llm"}
  /\ exState' \in {"dependencies", "thrown"}
  /\ exRead' = NoRead

\* C21: whatever dependency files are missing, a call for a registered agent
\* goes as it does when every file exists: the same paths are checked and
\* the call stops at the dependency check only if it does so with all files
\* present; the missing ones, and only they, are warned about; and from the
\* dependency check the call goes on to build the prompt and call the
\* gateway once, unless the agent's persona makes the prompt fail.
MissingDependencyChangesNothing ==
  /\ [](exWarnings = SelectSeq(exDepChecks, LAMBDA depPath : depPath \notin files))
  /\ [][ExecStartStep /\ RegisteredIn(agents, exCall'.agentId)
          => LET agent == agentsGet(agents, exCall'.agentId)[1]
                 allPresent == loadAgentDependencies(agent, DependencyFiles)
             IN /\ exDepChecks' = allPresent.checked
                /\ exState' = IF allPresent.threw THEN "thrown" ELSE "dependencies"
                /\ exError' = IF allPresent.threw THEN <<"TypeError", "dependencies">>
                              ELSE <<>>]_vars
  /\ [][exState = "dependencies" /\ exState' # "dependencies"
          => IF Get(agentsGet(agents, exCall.agentId)[1].persona,
                    <<"core_principles">>).kind = "array"
             THEN /\ exState' = "llm"
                  /\ exPrompt' # <<>>
                  /\ exGatewayCalls' = 1
                  /\ gwState' = "awaiting"
             ELSE /\ exState' = "thrown"
                  /\ exGatewayCalls' = 0]_vars

\* A call whose only dependency file is missing was warned about it and
\* returned a session.
MissingDependencyChangesNothingWitness ==
  /\ exState = "returned"
  /\ files = {}
  /\ exDepChecks = << <<"data", "g">> >>
  /\ exWarnings = << <<"data", "g">> >>
  /\ Len(exSession) = 1

Sentinel(key) == IF key = "userId" THEN "anonymous" ELSE "default"

\* C22: in a returned session userId, projectId and storyFileId are the
\* values of inputs when they are present, and "anonymous", "default",
\* "default" when they are absent.
SessionIdentifiersFromInputs ==
  exState = "returned" =>
    \A key \in {"userId", "projectId", "storyFileId"} :
      exSession[1][key] =
        IF key \in DOMAIN exCall.inputs THEN exCall.inputs[key] ELSE Sentinel(key)

\* C22, amended: an identifier of inputs is taken over when it is present
\* and not empty; when it is absent or empty the session holds the
\* sentinel.  Once the gateway has returned the call returns, whatever
\* identifiers are missing.
SessionIdentifiersFromNonEmptyInputs ==
  /\ [](exState = "returned" =>
          \A key \in {"userId", "projectId", "storyFileId"} :
            exSession[1][key] =
              IF key \in DOMAIN exCall.inputs /\ exCall.inputs[key] # ""
              THEN exCall.inputs[key]
              ELSE Sentinel(key))
  /\ [][exState = "llm" /\ gwState = "returned" /\ exState' # "llm"
          => exState' = "returned" /\ Len(exSession') = 1]_vars

\* A call with an empty userId and no other identifier returned a session
\* with the three sentinels.
SessionIdentifiersFromNonEmptyInputsWitness ==
  /\ exState = "returned"
  /\ exCall.inputs = [userId |-> ""]
  /\ exSession[1].userId = "anonymous"
  /\ exSession[1].projectId = "default"
  /\ exSession[1].storyFileId = "default"

\* C23: a returned session has createdAt equal to updatedAt.
TimestampsAreEqual ==
  exState = "returned" => exSession[1].createdAt = exSession[1].updatedAt

\* What holds of the two readings of the clock: the second is not earlier.
TimestampsInOrder ==
  exState = "returned" => exSession[1].createdAt <= exSession[1].updatedAt

RegistryIsFixedAfterLoad ==
  [][ldState = "loaded" => agents' = agents /\ ldState' = "loaded"]_vars

\* A call was thrown and the agents were listed while the registry holds
\* the two agents loaded at startup.
RegistryIsFixedAfterLoadWitness ==
  /\ ldState = "loaded"
  /\ exState = "thrown"
  /\ exRead.op = "getAvailableAgents"
  /\ Len(agents) = 2
  /\ Len(exRead.ret) = 2

\* The documents of the directory that loadAgents reads: those whose file
\* name ends with '.md'.
AgentDocuments ==
  { ldDirectory[i] : i \in { j \in 1..Len(ldDirectory) : endsWith(ldDirectory[j].file, ".md") } }

\* C25: a loaded document with the sections agent (id, name, title), persona
\* (role, style, core_principles), commands and dependencies is registered
\* under its id, and the definition holds the persona, the commands and the
\* dependencies that were written.
WellFormedDocumentIsRegistered ==
  ldState = "loaded" /\ WellFormedDocument \in AgentDocuments =>
    /\ RegisteredIn(agents, "writer")
    /\ LET agent == agentsGet(agents, "writer")[1]
       IN /\ agent.name = Str(<<"Wren">>)
          /\ agent.title = Str(<<"Writer">>)
          /\ Get(agent.persona, <<"role">>) = Str(<<"novelist">>)
          /\ Get(agent.persona, <<"style">>) = Str(<<"vivid">>)
          /\ Get(agent.persona, <<"core_principles">>) = Arr(<<Str(<<"Show">>)>>)
          /\ Get(agent.commands, <<"help">>) = Str(<<"Show", " ", "help">>)
          /\ Get(agent.dependencies, <<"tasks">>) = Arr(<<Str(<<"o">>)>>)

\* C26: the registry after the load holds exactly the well-formed documents
\* of the directory, whatever malformed documents stand beside them: a
\* document without a block next to a well-formed one leaves one entry.
RegistryHoldsTheWellFormedDocuments ==
  ldState = "loaded" /\ AgentDocuments = {WellFormedDocument, NoBlockDocument} =>
    Len(agents) = 1

\* What the load does keep: it always ends, and the registry holds one
\* entry for each id of the documents that parseAgentFile returned a
\* definition for, and nothing else.
RegistryHoldsTheParsedDocuments ==
  ldState = "loaded" =>
    { agents[i].key : i \in 1..Len(agents) }
      = { parseAgentFile(d)[1].id : d \in { e \in AgentDocuments : parseAgentFile(e) # Null } }

\* C27: the parser completes on every sequence of lines, and every document
\* with a block yields a definition.
EveryBlockYieldsADefinition ==
  ldState = "loaded" /\ Len(ldDirectory) = 1 =>
    \A d \in AgentDocuments : d.block # Null => Len(agents) = 1

\* C28: a document whose agent section has an id entry is registered under
\* that id, and a document without an id entry under the base name of its
\* file.
RegisteredUnderIdOrBaseName ==
  ldState = "loaded" /\ Len(ldDirectory) = 1 /\ Len(agents) = 1 =>
    \A d \in AgentDocuments :
      LET lines == split(d.block[1])
      IN /\ (\E j \in 1..(Len(lines) - 1) : lines[j] = AgentLine /\ lines[j + 1] = IdLine)
              => agents[1].key = Str(<<"writer">>)
         /\ (\A j \in 1..Len(lines) : lines[j] # IdLine)
              => agents[1].key = Str(basename(d.file))

\* What holds of the key: it is the id of the agent section when that
\* section is the first of the block, and the base name when the block has
\* no id entry.
RegisteredUnderIdOfFirstSection ==
  ldState = "loaded" /\ Len(ldDirectory) = 1 /\ Len(agents) = 1 =>
    \A d \in AgentDocuments :
      LET lines == split(d.block[1])
      IN /\ (Len(lines) >= 2 /\ lines[1] = AgentLine /\ lines[2] = IdLine)
              => agents[1].key = Str(<<"writer">>)
         /\ (\A j \in 1..Len(lines) : lines[j] # IdLine)
              => agents[1].key = Str(basename(d.file))

(***************************************************************************)
(* Properties of the usage monitor.                                        *)
(***************************************************************************)
Min(a, b) == IF a <= b THEN a ELSE b

\* C30: the session buffer never holds more than 1000 sessions, and after n
\* calls of recordSession it holds the last min(n, 1000) sessions recorded,
\* in the order of recording.
BufferHoldsTheLastSessions ==
  /\ Len(sessionMetrics) <= SessionCapacity
  /\ Len(sessionMetrics) = Min(Len(umRecorded), SessionCapacity)
  /\ sessionMetrics = SubSeq(umRecorded,
                             Len(umRecorded) - Min(Len(umRecorded), SessionCapacity) + 1,
                             Len(umRecorded))

\* 1001 sessions were recorded: the buffer holds the second to the last.
BufferHoldsTheLastSessionsWitness ==
  /\ Len(umRecorded) = SessionCapacity + 1
  /\ Len(sessionMetrics) = SessionCapacity
  /\ sessionMetrics[1] = umRecorded[2]
  /\ sessionMetrics[1] # umRecorded[1]
  /\ sessionMetrics[SessionCapacity] = umRecorded[SessionCapacity + 1]

\* The sessions of the buffer that were created in the 24 hours before the
\* latest reading, and the buffer with every session created at the reading.
InWindow ==
  SelectSeq(sessionsOf(sessionMetrics), LAMBDA s : s.createdAt >= umRead.now - DayMs)

AllCreatedNow ==
  [i \in 1..Len(sessionMetrics) |->
     [sessionAt(sessionMetrics[i]) EXCEPT !.createdAt = umRead.now]]

\* C31: what getGlobalMetrics returns for the tokens, the cost, the active
\* users, the popular agents and the latencies is what it returns for the
\* sessions created in the 24 hours before now alone, and its errorRate is
\* the one it returns whatever the ages of the sessions are.
OnlyTheLastDayIsAggregated ==
  umRead.op = "getGlobalMetrics" =>
    LET recent == getGlobalMetrics(InWindow, errorCount, totalRequests, umRead.now)
        ageless == getGlobalMetrics(AllCreatedNow, errorCount, totalRequests, umRead.now)
    IN /\ umRead.ret = recent
       /\ umRead.ret.totalTokensUsed
            = reduceSum([i \in 1..Len(InWindow) |-> InWindow[i].llmMetadata.tokensUsed])
       /\ umRead.ret.totalCost
            = reduceSum([i \in 1..Len(InWindow) |-> InWindow[i].llmMetadata.cost])
       /\ umRead.ret.activeUsers
            = Cardinality({ InWindow[i].userId : i \in 1..Len(InWindow) })
       /\ umRead.ret.errorRate = ageless.errorRate

\* The metrics were read with a session of the last day and one a
\* millisecond older than a day in the buffer: only the first is counted.
OnlyTheLastDayIsAggregatedWitness ==
  /\ umRead.op = "getGlobalMetrics"
  /\ Len(sessionMetrics) = 2
  /\ Len(InWindow) = 1
  /\ umRead.ret.totalTokensUsed = 7
  /\ umRead.ret.activeUsers = 1
  /\ umRead.ret.responseTime.p99 = 5000

\* C32: the error rate is 100 times the number of calls of recordError over
\* the number of calls of recordSession since the monitor was constructed,
\* whatever was evicted or cleaned up, and 0 as long as no session was
\* recorded.
ErrorRateOverLifetime ==
  errorRate(errorCount, totalRequests) =
    IF Len(umRecorded) = 0
    THEN Divide(0, 1)
    ELSE Divide(umErrorCalls * 100, Len(umRecorded))

\* 1001 sessions and an error were recorded, the first session was evicted
\* and a cleanup a day later emptied the buffer: the rate is 100/1001.
ErrorRateOverLifetimeWitness ==
  /\ Len(umRecorded) = SessionCapacity + 1
  /\ umErrorCalls = 1
  /\ sessionMetrics = <<>>
  /\ errorRate(errorCount, totalRequests) = Divide(100, SessionCapacity + 1)

\* C33: getSystemHealth returns critical exactly when the error rate is
\* above 10 or the average latency above 10000, otherwise warning exactly
\* when the error rate is above 5 or the average latency above 5000, and
\* otherwise healthy.
HealthFollowsStrictThresholds ==
  umRead.op = "getSystemHealth" =>
    LET latencies == reduceSum([i \in 1..Len(InWindow) |-> InWindow[i].llmMetadata.latency])
        rateAbove(k) == totalRequests > 0 /\ errorCount * 100 > k * totalRequests
        averageAbove(k) == Len(InWindow) > 0 /\ latencies > k * Len(InWindow)
    IN umRead.ret.status =
         IF rateAbove(10) \/ averageAbove(10000)
         THEN "critical"
         ELSE IF rateAbove(5) \/ averageAbove(5000) THEN "warning" ELSE "healthy"

\* The health was read with an error rate of exactly 10 and a low latency:
\* the status is warning.
HealthFollowsStrictThresholdsWitness ==
  /\ umRead.op = "getSystemHealth"
  /\ totalRequests > 0
  /\ errorCount * 100 = 10 * totalRequests
  /\ umRead.ret.status = "warning"
  /\ umRead.ret.alerts = <<"High error rate">>

\* The health was read with an average latency of exactly 5000 and no
\* error: the status is healthy.
HealthyAtTheThreshold ==
  /\ umRead.op = "getSystemHealth"
  /\ umRead.ret.status = "healthy"
  /\ umRead.ret.alerts = <<>>
  /\ Len(InWindow) > 0
  /\ \A i \in 1..Len(InWindow) : InWindow[i].llmMetadata.latency = 5000

UsageOf(agentId) ==
  Cardinality({ i \in 1..Len(InWindow) : InWindow[i].agentId = agentId })

FirstOf(agentId) ==
  CHOOSE i \in 1..Len(InWindow) :
    /\ InWindow[i].agentId = agentId
    /\ \A j \in 1..(i - 1) : InWindow[j].agentId # agentId

\* C34: popularAgents has at most 5 entries, each for another agent with the
\* number of its sessions in the window; the counts do not increase along
\* the list, agents with equal counts stand in the order of their first
\* session in the buffer, and no agent left out has more sessions than a
\* listed one.
PopularAgentsAreTheTopFive ==
  umRead.op = "getGlobalMetrics" =>
    LET popular == umRead.ret.popularAgents
        listed == { popular[i].agentId : i \in 1..Len(popular) }
        used == { InWindow[i].agentId : i \in 1..Len(InWindow) }
    IN /\ Len(popular) <= 5
       /\ Len(popular) = Min(5, Cardinality(used))
       /\ Cardinality(listed) = Len(popular)
       /\ listed \subseteq used
       /\ \A i \in 1..Len(popular) : popular[i].usageCount = UsageOf(popular[i].agentId)
       /\ \A i \in 1..Len(popular), j \in 1..Len(popular) :
            i < j =>
              /\ popular[i].usageCount >= popular[j].usageCount
              /\ popular[i].usageCount = popular[j].usageCount
                   => FirstOf(popular[i].agentId) < FirstOf(popular[j].agentId)
       /\ \A agentId \in used \ listed :
            \A i \in 1..Len(popular) : UsageOf(agentId) <= popular[i].usageCount

\* The metrics were read over six agents of the last day, two of them with
\* two sessions: those come first, in the order of their first session, the
\* sixth agent is left out and the agent with old sessions only is not
\* counted.
PopularAgentsAreTheTopFiveWitness ==
  /\ umRead.op = "getGlobalMetrics"
  /\ Len(sessionMetrics) = Len(AgentsWorkload)
  /\ [i \in 1..Len(umRead.ret.popularAgents) |-> umRead.ret.popularAgents[i].agentId]
       = <<"character", "cover", "plot", "world", "editor">>
  /\ umRead.ret.popularAgents[2].usageCount = 2
  /\ umRead.ret.popularAgents[3].usageCount = 1

\* C35: with n sessions in the window P95 and P99 are the latencies at the
\* indexes floor(n * 0.95) and floor(n * 0.99) of the latencies in ascending
\* order; for n > 0 the indexes are within 0..n-1, so that P95 <= P99 <= the
\* greatest latency; with no session the average, P95 and P99 are 0.
PercentilesAreSortedElements ==
  umRead.op = "getGlobalMetrics" =>
    LET times == responseTimes(InWindow)
        n == Len(times)
        p95Index == (n * 95) \div 100
        p99Index == (n * 99) \div 100
        latency == umRead.ret.responseTime
    IN /\ n = Len(InWindow)
       /\ \A i \in 1..n, j \in 1..n : i < j => times[i] <= times[j]
       /\ \A i \in 1..n :
            Cardinality({ j \in 1..n : times[j] = times[i] })
              = Cardinality({ j \in 1..n : InWindow[j].llmMetadata.latency = times[i] })
       /\ n > 0 =>
            /\ p95Index \in 0..(n - 1)
            /\ p99Index \in 0..(n - 1)
            /\ latency.p95 = times[p95Index + 1]
            /\ latency.p99 = times[p99Index + 1]
            /\ latency.p95 <= latency.p99
            /\ latency.p99 <= times[n]
       /\ n = 0 =>
            /\ latency.average = Divide(0, 1)
            /\ latency.p95 = 0
            /\ latency.p99 = 0

\* The metrics were read over 21 sessions with the latencies 0, 100, ...,
\* 2000: P95 is the one at index 19 and P99 the one at index 20.
PercentilesAreSortedElementsWitness ==
  /\ umRead.op = "getGlobalMetrics"
  /\ Len(InWindow) = 21
  /\ umRead.ret.responseTime.p95 = 1900
  /\ umRead.ret.responseTime.p99 = 2000
  /\ umRead.ret.responseTime.average = Divide(1000, 1)

\* C36: the error rate that getGlobalMetrics and getSystemHealth report is
\* between 0 and 100.
ErrorRateIsAPercentage ==
  umRead.op \in {"getGlobalMetrics", "getSystemHealth"} =>
    /\ umRead.ret.errorRate.num >= 0
    /\ umRead.ret.errorRate.num <= 100 * umRead.ret.errorRate.den

\* What holds of the reported rate: it is not negative, and at most 100
\* while no more errors than sessions were recorded.
ErrorRateIsBoundedByTheCalls ==
  umRead.op \in {"getGlobalMetrics", "getSystemHealth"} =>
    /\ umRead.ret.errorRate.num >= 0
    /\ umErrorCalls <= Len(umRecorded) =>
         umRead.ret.errorRate.num <= 100 * umRead.ret.errorRate.den

(***************************************************************************)
(* The auth service.                                                       *)
(***************************************************************************)
\* A token of the history is live at a time: it was issued, was not logged
\* out, and the time is not after the 24 hours that follow its issue.
TokenIsLive(issued, now, token) ==
  /\ token \in DOMAIN issued
  /\ ~issued[token].loggedOut
  /\ now <= issued[token].issuedAt + DayMs

\* C37: validateToken accepts a token only between its creation by register
\* or login and the earlier of its expiry, 24 hours later, and its logout.
\* For a live token it returns the owning user; for an expired one it
\* returns null and the session is removed; after logout it returns null; a
\* token that has become invalid is never live again; logout of one token
\* leaves the other sessions as they are.
TokenAcceptedWhileLive ==
  [][
      /\ auLast'.op = "validateToken" =>
           LET validated == auLast'.args[1]
           IN IF TokenIsLive(auIssued, auNow, validated)
              THEN /\ auLast'.ret = Some(users[auIssued[validated].userId])
                   /\ validated \in DOMAIN sessions'
              ELSE /\ auLast'.ret = Null
                   /\ validated \notin DOMAIN sessions'
      /\ auLast'.op = "logout" =>
           \A other \in (DOMAIN sessions) \ {auLast'.args[1]} :
             /\ other \in DOMAIN sessions'
             /\ sessions'[other] = sessions[other]
      /\ \A token \in DOMAIN auIssued :
           ~TokenIsLive(auIssued, auNow, token) => ~TokenIsLive(auIssued', auNow', token)
    ]_vars

\* A token was validated a millisecond after its 24 hours: the answer is
\* null and the session is gone, while the user's later token is in use.
TokenAcceptedWhileLiveWitness ==
  /\ auLast.op = "validateToken"
  /\ auLast.ret = Null
  /\ LET token == auLast.args[1]
     IN /\ token \in DOMAIN auIssued
        /\ ~auIssued[token].loggedOut
        /\ auNow = auIssued[token].issuedAt + DayMs + 1
        /\ token \notin DOMAIN sessions
        /\ \E other \in DOMAIN sessions :
             /\ other # token
             /\ sessions[other].userId = auIssued[token].userId

\* The user has used no more tokens than the limit allows.
WithinLimit(registered, userId) ==
  registered[userId].tokensUsed <= registered[userId].tokenLimit

\* C38: a user whose usage was only ever raised by an amount for which
\* checkTokenLimit returned true in the same state has tokensUsed <=
\* tokenLimit in every reachable state, changes of plan included.
CheckedUsersStayWithinLimit ==
  \A userId \in DOMAIN users :
    userId \notin auUnchecked => WithinLimit(users, userId)

\* What holds of such a user: registered within the limit, and taken from
\* within the limit to above it by no step other than an updateUserPlan of
\* that user to a plan with a lower limit.
CheckedUsersLeaveLimitByPlanOnly ==
  [][
      \A userId \in DOMAIN users' :
        userId \notin auUnchecked' =>
          /\ userId \notin DOMAIN users => WithinLimit(users', userId)
          /\ /\ userId \in DOMAIN users
             /\ WithinLimit(users, userId)
             /\ ~WithinLimit(users', userId)
             => /\ auLast'.op = "updateUserPlan"
                /\ auLast'.args[1] = userId
                /\ users'[userId].tokenLimit < users[userId].tokenLimit
                /\ users'[userId].tokensUsed = users[userId].tokensUsed
    ]_vars

\* A user on the pro plan used 10000 tokens after a passed check and was
\* then moved to the free plan: 10000 used with a limit of 1000.
CheckedUsersLeaveLimitByPlanOnlyWitness ==
  /\ auLast.op = "updateUserPlan"
  /\ auLast.ret = TRUE
  /\ LET userId == auLast.args[1]
     IN /\ userId \notin auUnchecked
        /\ users[userId].plan = "free"
        /\ users[userId].tokensUsed = 10000
        /\ users[userId].tokenLimit = 1000

\* The ids of the users registered with an email.
UsersWithEmail(registered, email) ==
  { userId \in DOMAIN registered : registered[userId].email = email }

\* C39: login succeeds exactly when the email is the one of a registered
\* user, whatever the password: it then returns that user and a token that
\* had no session before and has one now, of that user and not expired;
\* otherwise it fails and changes nothing.  The answer is determined by the
\* email and the state.
LoginDependsOnEmailOnly ==
  [][
      auLast'.op = "login" =>
        LET email == auLast'.args[1]
            found == UsersWithEmail(users, email)
        IN IF found = {}
           THEN /\ auLast'.ret = [success |-> FALSE, user |-> Null, token |-> Null,
                                  error |-> "Invalid credentials"]
                /\ users' = users
                /\ sessions' = sessions
           ELSE \E userId \in found, token \in (DOMAIN sessions') \ (DOMAIN sessions) :
                  /\ auLast'.ret = [success |-> TRUE,
                                    user |-> Some([users[userId] EXCEPT !.lastLoginAt = auNow]),
                                    token |-> Some(token), error |-> Absent]
                  /\ users'[userId].email = email
                  /\ sessions'[token].userId = userId
                  /\ sessions'[token].expiresAt = auNow + DayMs
                  /\ ~(sessions'[token].expiresAt < auNow')
                  /\ \A other \in DOMAIN sessions :
                       other \in DOMAIN sessions' /\ sessions'[other] = sessions[other]
    ]_vars

\* A registered user logged in with a password other than "pw" and holds
\* the token of the registration and the new one.
LoginDependsOnEmailOnlyWitness ==
  /\ auLast.op = "login"
  /\ auLast.args[2] = "other"
  /\ auLast.ret.success
  /\ \E userId \in DOMAIN users :
       /\ users[userId].email = auLast.args[1]
       /\ Cardinality({ token \in DOMAIN sessions : sessions[token].userId = userId }) = 2

\* C40: no two registered users share an email.  register with a registered
\* email fails and leaves the users and the sessions as they are; register
\* with a new email creates one user, on the free plan with a limit of 1000
\* tokens and none used, and one session of that user.
EmailsAreUnique ==
  [][
      /\ \A userId \in DOMAIN users', other \in DOMAIN users' :
           users'[userId].email = users'[other].email => userId = other
      /\ auLast'.op = "register" =>
           IF UsersWithEmail(users, auLast'.args[1]) # {}
           THEN /\ ~auLast'.ret.success
                /\ auLast'.ret.error = "User already exists"
                /\ users' = users
                /\ sessions' = sessions
           ELSE \E userId \in (DOMAIN users') \ (DOMAIN users),
                   token \in (DOMAIN sessions') \ (DOMAIN sessions) :
                  /\ DOMAIN users' = (DOMAIN users) \cup {userId}
                  /\ DOMAIN sessions' = (DOMAIN sessions) \cup {token}
                  /\ \A old \in DOMAIN users : users'[old] = users[old]
                  /\ \A old \in DOMAIN sessions : sessions'[old] = sessions[old]
                  /\ users'[userId].email = auLast'.args[1]
                  /\ users'[userId].plan = "free"
                  /\ users'[userId].tokenLimit = 1000
                  /\ users'[userId].tokensUsed = 0
                  /\ sessions'[token].userId = userId
                  /\ auLast'.ret.success
                  /\ auLast'.ret.user = Some(users'[userId])
                  /\ auLast'.ret.token = Some(token)
    ]_vars

\* register was called with the email of the one registered user: it
\* failed, and there are one user and one session as before.
EmailsAreUniqueWitness ==
  /\ auLast.op = "register"
  /\ ~auLast.ret.success
  /\ Cardinality(UsersWithEmail(users, auLast.args[1])) = 1
  /\ Cardinality(DOMAIN users) = 1
  /\ Cardinality(DOMAIN sessions) = 1

=============================================================================
